---- MODULE Spec2Model ----
(***************************************************************************)
(* Job control of mysh (src/src/mysh.c): the main loop, execute_pipeline,  *)
(* the fg/bg/jobs/exit built-ins, the job table, the SIGCHLD reaper and    *)
(* the SIGINT/SIGTSTP forwarders, together with the part of the kernel     *)
(* they talk to: the child processes, their process groups, their wait     *)
(* statuses and the terminal's foreground process group.                   *)
(*                                                                         *)
(* The shell is one thread.  A signal handler runs on that thread between  *)
(* two statements of the main program, so every statement (or run of       *)
(* statements no handler and no child can tell apart) is one action, and   *)
(* a handler is one action: the main program does not move while it runs.  *)
(* Children are processes of their own and move at any time.               *)
(***************************************************************************)
EXTENDS Integers, Sequences, FiniteSets, TLC

VARIABLES
    pc,             \* where the main program of the shell is
    term,           \* how the shell process ended: cause, saved, exit code
    jobs,           \* jobs[0..jobs_count-1], as a sequence
    next_job_id,    \* static int next_job_id
    fg_pgid,        \* static pid_t fg_pgid
    tty,            \* the terminal's foreground process group (tcgetpgrp)
    procs,          \* the kernel's view of the children the shell forked
    npids,          \* number of children forked so far (pids are 1..npids)
    pl,             \* the parsed input line: pipeline_t, and its raw line
    i,              \* execute_pipeline: loop index of the fork loop
    pgid,           \* execute_pipeline: pid_t pgid
    p,              \* execute_pipeline: pid_t p, the last fork() result
    w,              \* the pid the main program's last waitpid() returned
    status,         \* the int status the main program's waitpid() filled
    last_status,    \* main: int last_status
    j,              \* builtin_fg / builtin_bg: job_t *j, as an index
    sigchld,        \* SIGCHLD is pending for the shell
    disp,           \* disposition of SIGINT and SIGTSTP in the shell
    sysv,           \* signal() resets the handler and does not restart calls
    bgbase,         \* background groups that were started before the window
    line,           \* main: char *rawline, the line read last
    toks,           \* main: char **toks, what tokenize made of it
    aliases,        \* aliases[0..alias_count-1], as a sequence
    shell_vars,     \* shell_vars[0..var_count-1], as a sequence
    history,        \* history[0..history_count-1], as a sequence
    cwd,            \* the working directory of the shell process
    ran,            \* what the executor did for the line read last
    scan,           \* tokenize: const char *p, as an index into the line
    fds,            \* the descriptor table of the shell process
    pipefds,        \* execute_pipeline: int pipefds[], as far as it is filled
    cfds,           \* the children of the pipeline: state, descriptor table
    cur,            \* parse_tokens: cmd_t cur, the command under construction
    config,         \* the lines of the file $HOME/.mysh_history_config
    at_exit         \* the tables as they were when config was written

vars == <<pc, term, jobs, next_job_id, fg_pgid, tty, procs, npids, pl, i,
          pgid, p, w, status, last_status, j, sigchld, disp, sysv,
          bgbase, line, toks, aliases, shell_vars, history, cwd, ran,
          scan, fds, pipefds, cfds, cur, config, at_exit>>

(***************************************************************************)
(* Bounds of the model and constants of the program.                       *)
(***************************************************************************)
MaxPid == 2
MaxCmds == 2
MaxChildless == 1
MaxLen == 5
MaxHist == 3
MaxForks == 3
MaxFd == 7
MaxToks == 5
MaxArgs == 3
MaxPipeCmds == 3
MAX_JOBS == 128
MAX_TOKENS == 256
MAX_ARGS == 128
MAX_HISTORY == 1000
MAX_ALIASES == 100
MAX_VARS == 100
LINE_MAX == 4095
RESULT_MAX == 4090
VAR_MAX == 127
CMDS_MAX == 16
shell_pgid == 1000

Pids == 1..MaxPid
ExitCodes == {0, 1}
Signals == {"SIGINT", "SIGTSTP"}

NoStatus == [kind |-> "none", code |-> 0]
Stopped == [kind |-> "stopped", code |-> 0]
Continued == [kind |-> "continued", code |-> 0]
Exited(c) == [kind |-> "exited", code |-> c]
Signaled == [kind |-> "signaled", code |-> 0]

NoProc == [st |-> "free", pgid |-> 0, fg |-> FALSE,
           stop_pending |-> FALSE, cont_pending |-> FALSE, wstat |-> NoStatus]
Reaped == [NoProc EXCEPT !.st = "reaped"]

NoLine == [type |-> "none", n |-> 0, background |-> FALSE, skip |-> FALSE,
           id |-> 0]

Alive == pc \notin {"exited", "killed", "suspended"}

JOB_RUNNING == "RUNNING"
JOB_STOPPED == "STOPPED"
JOB_DONE == "DONE"

(***************************************************************************)
(* The kernel: process groups, signals, wait statuses.                     *)
(*   st: "free" (pid not used yet), "forked" (between fork and exec),      *)
(*       "run", "stopped", "zombie" (terminated, not waited for),          *)
(*       "reaped" (waited for: gone from the process table).               *)
(* A stop is reported once to a waitpid(WUNTRACED) (stop_pending), a       *)
(* continue once to a waitpid(WCONTINUED) (cont_pending).                  *)
(***************************************************************************)
Forked == 1..npids

\* The background groups started before the window hold one process each
\* that ignores SIGINT and SIGTSTP and neither exits nor stops within the
\* window.
EarlierPgids == {MaxPid + k : k \in 1..bgbase}

InTable(q) == procs[q].st \notin {"free", "reaped"}

Group(g) == {q \in Forked : InTable(q) /\ procs[q].pgid = g}

GroupExists(g) == Group(g) # {} \/ g \in EarlierPgids

\* the processes kill(-g, ..) and waitpid(-g, ..) of the shell address: -0 is
\* 0, which stands for the caller's own process group
OfGroup(g) == Group(IF g = 0 THEN shell_pgid ELSE g)

\* waitpid(-g, ..) has children to wait for (otherwise it fails with ECHILD)
HasChildren(g) == OfGroup(g) # {} \/ g \in EarlierPgids

\* kill(-g, sig) with the dispositions the children have after exec: SIGINT
\* terminates, SIGTSTP stops, SIGCONT continues a stopped process
Signal(ps, g, sig) ==
    [q \in Pids |->
        IF q \in OfGroup(g) /\ sig = "SIGINT" /\ ps[q].st = "run"
            THEN [ps[q] EXCEPT !.st = "zombie", !.wstat = Signaled,
                               !.cont_pending = FALSE]
        ELSE IF q \in OfGroup(g) /\ sig = "SIGTSTP" /\ ps[q].st = "run"
            THEN [ps[q] EXCEPT !.st = "stopped", !.stop_pending = TRUE,
                               !.cont_pending = FALSE]
        ELSE IF q \in OfGroup(g) /\ sig = "SIGCONT" /\ ps[q].st = "stopped"
            THEN [ps[q] EXCEPT !.st = "run", !.stop_pending = FALSE,
                               !.cont_pending = TRUE]
        ELSE ps[q]]

\* a child that terminates raises SIGCHLD (SA_NOCLDSTOP: a stop or a
\* continue raises none)
Raises(ps) == \E q \in Pids : ps[q].st = "zombie" /\ procs[q].st # "zombie"

\* what a waitpid() of the shell with these options can report for child q
Reports(ps, q, untraced, continued) ==
    IF ps[q].st = "zombie" THEN {ps[q].wstat}
    ELSE IF untraced /\ ps[q].stop_pending THEN {Stopped}
    ELSE IF continued /\ ps[q].cont_pending THEN {Continued}
    ELSE {}

\* the process table after q's status ws was collected
Collected(ps, q, ws) ==
    [ps EXCEPT ![q] =
        IF ws = Stopped THEN [@ EXCEPT !.stop_pending = FALSE]
        ELSE IF ws = Continued THEN [@ EXCEPT !.cont_pending = FALSE]
        ELSE Reaped]

\* tcsetpgrp(fd, g), by the shell or by a child (SIGTTOU is ignored in
\* both): the terminal's foreground group afterwards
tcsetpgrp(g) == IF GroupExists(g) \/ g = shell_pgid THEN g ELSE tty

(***************************************************************************)
(* Job table.                                                              *)
(***************************************************************************)
\* a faulty add_job: the id is taken from the number of entries
add_job_id_from_count == Len(jobs) + 1

\* add_job: the id the new entry gets
add_job_id == next_job_id

\* a faulty add_job: no test of jobs_count against MAX_JOBS
add_job_unbounded(pg, cmdline, state) ==
    Append(jobs, [id |-> add_job_id, pgid |-> pg, cmdline |-> cmdline,
                  state |-> state])

\* add_job: the table after add_job(pg, cmdline, state)
add_job(pg, cmdline, state) ==
    IF Len(jobs) >= MAX_JOBS THEN jobs
    ELSE Append(jobs, [id |-> add_job_id, pgid |-> pg, cmdline |-> cmdline,
                       state |-> state])

\* add_job: next_job_id after the call
add_job_next == IF Len(jobs) >= MAX_JOBS THEN next_job_id ELSE next_job_id + 1

\* find_job_by_id: the index of the first entry with that id, 0 for NULL
find_job_by_id(id) ==
    IF \E k \in 1..Len(jobs) : jobs[k].id = id
    THEN CHOOSE k \in 1..Len(jobs) :
            jobs[k].id = id /\ \A m \in 1..(k-1) : jobs[m].id # id
    ELSE 0

\* remove_done_jobs: the table compacted, order kept
remove_done_jobs == SelectSeq(jobs, LAMBDA e : e.state # JOB_DONE)

(***************************************************************************)
(* Text: lines, tokens, the alias table, the variable table, the history.  *)
(* A C string is the sequence of its characters, each a string of length   *)
(* one.  read_line returns at most LINE_MAX characters (fgets into a       *)
(* buffer of 4096), so tokenize's buf[4096] never fills up and its test    *)
(* bi < sizeof(buf)-1 is true wherever it is evaluated.                    *)
(***************************************************************************)
Digits == {"0", "1", "2", "3", "4", "5", "6", "7", "8", "9"}
Letters == {"a", "b", "c", "d", "e", "f", "g", "h", "i", "j", "k", "l", "m",
            "n", "o", "p", "q", "r", "s", "t", "u", "v", "w", "x", "y", "z",
            "A", "B", "C", "D", "E", "F", "G", "H", "I", "J", "K", "L", "M",
            "N", "O", "P", "Q", "R", "S", "T", "U", "V", "W", "X", "Y", "Z"}

isspace(c) == c \in {" ", "\t", "\n", "\r", "\f"}
isdigit(c) == c \in Digits
isalnum(c) == c \in Letters \cup Digits

\* getenv: the environment the shell was started in
Environ == <<[name |-> <<"b">>, value |-> <<"a", "b">>]>>

\* the value of the first entry of table t with that name, as a set: {} for
\* no such entry
Lookup(t, name) ==
    IF \E k \in 1..Len(t) : t[k].name = name
    THEN {t[CHOOSE k \in 1..Len(t) :
                t[k].name = name /\ \A m \in 1..(k-1) : t[m].name # name].value}
    ELSE {}

\* expand_env_vars: the number of characters of the name that starts at s[k]
\* (while (s[i] && (isalnum(s[i]) || s[i]=='_') && vi < 127))
RECURSIVE VarLen(_, _, _)
VarLen(s, k, vi) ==
    IF k <= Len(s) /\ (isalnum(s[k]) \/ s[k] = "_") /\ vi < VAR_MAX
    THEN VarLen(s, k + 1, vi + 1) ELSE vi

\* expand_env_vars: the value of var: shell_vars first, then getenv, else
\* nothing
VarValue(var) ==
    IF Lookup(shell_vars, var) # {} THEN CHOOSE v \in Lookup(shell_vars, var) : TRUE
    ELSE IF Lookup(Environ, var) # {} THEN CHOOSE v \in Lookup(Environ, var) : TRUE
    ELSE <<>>

\* for (k=0; val[k] && ri < 4090; k++) result[ri++] = val[k];
CopyValue(result, val) ==
    IF Len(result) >= RESULT_MAX THEN result
    ELSE IF Len(val) <= RESULT_MAX - Len(result) THEN result \o val
    ELSE result \o SubSeq(val, 1, RESULT_MAX - Len(result))

\* expand_env_vars: for (i = 0; s[i] && ri < 4090; i++)
RECURSIVE ExpandFrom(_, _, _)
ExpandFrom(s, k, result) ==
    IF k > Len(s) \/ Len(result) >= RESULT_MAX THEN result
    ELSE IF s[k] = "$"
    THEN LET n == VarLen(s, k + 1, 0)
         IN ExpandFrom(s, k + 1 + n,
                       CopyValue(result, VarValue(SubSeq(s, k + 1, k + n))))
    ELSE ExpandFrom(s, k + 1, Append(result, s[k]))

expand_env_vars(s) == ExpandFrom(s, 1, <<>>)

\* tokenize: while (isspace(*p)) p++;
RECURSIVE SkipSpace(_, _)
SkipSpace(s, k) ==
    IF k <= Len(s) /\ isspace(s[k]) THEN SkipSpace(s, k + 1) ELSE k

\* a faulty quoted scan: either quote character closes the token
RECURSIVE ScanQuoted_any_quote(_, _, _, _)
ScanQuoted_any_quote(s, k, quote, buf) ==
    IF k > Len(s) THEN [buf |-> buf, k |-> k]
    ELSE IF s[k] \in {"\"", "'"} THEN [buf |-> buf, k |-> k + 1]
    ELSE IF s[k] = "\\" /\ quote = "\"" /\ k + 1 <= Len(s)
    THEN ScanQuoted_any_quote(s, k + 2, quote, Append(buf, s[k + 1]))
    ELSE ScanQuoted_any_quote(s, k + 1, quote, Append(buf, s[k]))

\* tokenize, the token that starts with a quote, from the character after
\* it: while (*p && *p != quote) { .. }  if (*p == quote) p++;
RECURSIVE ScanQuoted(_, _, _, _)
ScanQuoted(s, k, quote, buf) ==
    IF k > Len(s) THEN [buf |-> buf, k |-> k]
    ELSE IF s[k] = quote THEN [buf |-> buf, k |-> k + 1]
    ELSE IF s[k] = "\\" /\ quote = "\"" /\ k + 1 <= Len(s)
    THEN ScanQuoted(s, k + 2, quote, Append(buf, s[k + 1]))
    ELSE ScanQuoted(s, k + 1, quote, Append(buf, s[k]))

\* tokenize, any other token: while (*p && !isspace(*p)) { .. }
RECURSIVE ScanWord(_, _, _)
ScanWord(s, k, buf) ==
    IF k > Len(s) \/ isspace(s[k]) THEN [buf |-> buf, k |-> k]
    ELSE IF s[k] = "\\" /\ k + 1 <= Len(s)
    THEN ScanWord(s, k + 2, Append(buf, s[k + 1]))
    ELSE ScanWord(s, k + 1, Append(buf, s[k]))

\* a faulty round of tokenize: the loop is left at MAX_TOKENS tokens
TokenizeRound_cap_late(s, k0, ts) ==
    LET k == SkipSpace(s, k0)
    IN IF k > Len(s) THEN [k |-> k, toks |-> ts, done |-> TRUE]
       ELSE LET r == IF s[k] \in {"\"", "'"}
                     THEN ScanQuoted(s, k + 1, s[k], <<>>)
                     ELSE ScanWord(s, k, <<>>)
                t == Append(ts, expand_env_vars(r.buf))
            IN [k |-> r.k, toks |-> t, done |-> Len(t) >= MAX_TOKENS]

\* tokenize: one round of the outer loop while (*p) { .. }, entered at
\* position k0 with the tokens ts; done says that the loop is left
\* (if (!*p) break;  ..  toks[ti++] = expanded;
\*  if (ti >= MAX_TOKENS-1) break;)
TokenizeRound(s, k0, ts) ==
    LET k == SkipSpace(s, k0)
    IN IF k > Len(s) THEN [k |-> k, toks |-> ts, done |-> TRUE]
       ELSE LET r == IF s[k] \in {"\"", "'"}
                     THEN ScanQuoted(s, k + 1, s[k], <<>>)
                     ELSE ScanWord(s, k, <<>>)
                t == Append(ts, expand_env_vars(r.buf))
            IN [k |-> r.k, toks |-> t, done |-> Len(t) >= MAX_TOKENS - 1]

\* tokenize: the outer loop from position k0 with the tokens ts
RECURSIVE TokenizeFrom(_, _, _)
TokenizeFrom(s, k0, ts) ==
    LET r == TokenizeRound(s, k0, ts)
    IN IF r.done \/ r.k > Len(s) THEN r.toks
       ELSE TokenizeFrom(s, r.k, r.toks)

tokenize(s) == TokenizeFrom(s, 1, <<>>)

(***************************************************************************)
(* The alias table, the variable table and the history.                    *)
(***************************************************************************)
\* strncat(dst, src, sizeof(dst) - strlen(dst) - 1) on a buffer of 4096
strncat(dst, src) ==
    IF Len(dst) + Len(src) <= LINE_MAX THEN dst \o src
    ELSE dst \o SubSeq(src, 1, LINE_MAX - Len(dst))

\* the words of argv joined by single spaces, from word k on, appended to
\* acc: for (..) { if (j > 0) strncat(.., " ", ..); strncat(.., argv[j], ..); }
RECURSIVE JoinFrom(_, _, _, _)
JoinFrom(argv, k, first, acc) ==
    IF k > Len(argv) THEN acc
    ELSE JoinFrom(argv, k + 1, first,
                  strncat(IF k > first THEN strncat(acc, <<" ">>) ELSE acc,
                          argv[k]))

Join(argv, first) == JoinFrom(argv, first, first, <<>>)

\* a faulty SetEntry: the entry is appended without a look at the names
SetEntry_appends(t, max, name, value) ==
    IF Len(t) < max THEN Append(t, [name |-> name, value |-> value]) ELSE t

\* add_alias / set_shell_var on table t with room for max entries: the
\* value of the first entry of that name is replaced, or an entry is
\* appended if there is room
SetEntry(t, max, name, value) ==
    IF \E k \in 1..Len(t) : t[k].name = name
    THEN [t EXCEPT ![CHOOSE k \in 1..Len(t) :
                        t[k].name = name /\ \A m \in 1..(k-1) : t[m].name # name
                    ].value = value]
    ELSE IF Len(t) < max THEN Append(t, [name |-> name, value |-> value])
    ELSE t

add_alias(name, value) == SetEntry(aliases, MAX_ALIASES, name, value)

set_shell_var(name, value) == SetEntry(shell_vars, MAX_VARS, name, value)

\* the tables of a shell, and no tables
Tables == [aliases |-> aliases, shell_vars |-> shell_vars]
NoTables == [aliases |-> <<>>, shell_vars |-> <<>>]

\* the characters of "alias " and of "set "
AliasPrefix == <<"a", "l", "i", "a", "s", " ">>
SetPrefix == <<"s", "e", "t", " ">>

\* save_persistent_data: the lines it writes,
\* fprintf(f, "alias %s=%s\n", ..) for each alias, then
\* fprintf(f, "set %s=%s\n", ..) for each variable
save_persistent_data ==
    [k \in 1..Len(aliases) |->
        AliasPrefix \o aliases[k].name \o <<"=">> \o aliases[k].value]
    \o [k \in 1..Len(shell_vars) |->
        SetPrefix \o shell_vars[k].name \o <<"=">> \o shell_vars[k].value]

\* strchr(l + from - 1, '='): the position of the first = of l at or after
\* position from, 0 for none
strchr_eq(l, from) ==
    IF \E k \in from..Len(l) : l[k] = "="
    THEN CHOOSE k \in from..Len(l) :
            l[k] = "=" /\ \A m \in from..(k - 1) : l[m] # "="
    ELSE 0

\* l starts with the characters of prefix (strncmp(line, prefix, n) == 0)
strncmp_eq(l, prefix) ==
    Len(l) >= Len(prefix) /\ SubSeq(l, 1, Len(prefix)) = prefix

\* load_persistent_data: what one line l of the file makes of the tables t
\* (the body of while ((read = getline(..)) != -1) { .. })
LoadLine(t, l) ==
    IF strncmp_eq(l, AliasPrefix)
    THEN IF strchr_eq(l, 7) = 0 THEN t
         ELSE [t EXCEPT !.aliases =
                 SetEntry(@, MAX_ALIASES, SubSeq(l, 7, strchr_eq(l, 7) - 1),
                          SubSeq(l, strchr_eq(l, 7) + 1, Len(l)))]
    ELSE IF strncmp_eq(l, SetPrefix)
    THEN IF strchr_eq(l, 5) = 0 THEN t
         ELSE [t EXCEPT !.shell_vars =
                 SetEntry(@, MAX_VARS, SubSeq(l, 5, strchr_eq(l, 5) - 1),
                          SubSeq(l, strchr_eq(l, 5) + 1, Len(l)))]
    ELSE t

\* builtin_unalias / builtin_unset: table t without its first entry of that
\* name
RemoveEntry(t, name) ==
    LET k == CHOOSE k \in 1..Len(t) :
                t[k].name = name /\ \A m \in 1..(k-1) : t[m].name # name
    IN SubSeq(t, 1, k - 1) \o SubSeq(t, k + 1, Len(t))

\* strtok(copy, " \t"): where the first word of s starts, Len(s) + 1 for none
RECURSIVE WordStart(_, _)
WordStart(s, k) ==
    IF k <= Len(s) /\ s[k] \in {" ", "\t"} THEN WordStart(s, k + 1) ELSE k

\* and the position after its last character
RECURSIVE WordStop(_, _)
WordStop(s, k) ==
    IF k <= Len(s) /\ s[k] \notin {" ", "\t"} THEN WordStop(s, k + 1) ELSE k

\* expand_aliases: the text the first word of input is replaced with by the
\* entry of table t that has its name: the value, and the rest of the input
\* after a single space.  rest = input + strlen(first_word), whatever comes
\* before the first word
AliasApplied(t, input, first_word) ==
    LET from == WordStart(input, Len(first_word) + 1)
        rest == SubSeq(input, from, Len(input))
        value == CHOOSE v \in Lookup(t, first_word) : TRUE
        expanded == SubSeq(value, 1, IF Len(value) <= LINE_MAX
                                     THEN Len(value) ELSE LINE_MAX)
    IN IF rest = <<>> THEN expanded
       ELSE strncat(strncat(expanded, <<" ">>), rest)

\* a faulty expand_aliases: the result is expanded once more
expand_aliases_again(input) ==
    LET once(s) ==
          LET a == WordStart(s, 1)
              first_word == SubSeq(s, a, WordStop(s, a) - 1)
          IN IF s = <<>> \/ a > Len(s) THEN s
             ELSE IF Lookup(aliases, first_word) = {} THEN s
             ELSE AliasApplied(aliases, s, first_word)
    IN once(once(input))

\* expand_aliases: one pass over the table for the first word of input
expand_aliases(input) ==
    LET a == WordStart(input, 1)
        first_word == SubSeq(input, a, WordStop(input, a) - 1)
    IN IF input = <<>> \/ a > Len(input) THEN input
       ELSE IF Lookup(aliases, first_word) = {} THEN input
       ELSE AliasApplied(aliases, input, first_word)

\* push_history: the history after push_history(l)
push_history(l) ==
    IF l = <<>> THEN history
    ELSE IF Len(history) > 0 /\ history[Len(history)] = l THEN history
    ELSE IF Len(history) < MAX_HISTORY THEN Append(history, l)
    ELSE Append(Tail(history), l)

\* atoi on the digits of s from position k: the value in two 16-bit halves,
\* kept modulo 2^32 (atoi is (int) strtol(..); for a number below 2^63 the
\* int is the low 32 bits of the long)
RECURSIVE AtoiFrom(_, _, _, _)
AtoiFrom(s, k, hi, lo) ==
    IF k > Len(s) \/ ~isdigit(s[k]) THEN [hi |-> hi, lo |-> lo]
    ELSE LET d == CHOOSE n \in 0..9 :
                    s[k] = <<"0", "1", "2", "3", "4", "5", "6", "7", "8",
                             "9">>[n + 1]
             l == lo * 10 + d
         IN AtoiFrom(s, k + 1, (hi * 10 + l \div 65536) % 65536, l % 65536)

\* atoi(s + k - 1), as the int the program gets
atoi(s, k) ==
    LET v == AtoiFrom(s, k, 0, 0)
    IN IF v.hi < 32768 THEN v.hi * 65536 + v.lo
       ELSE (v.hi - 65536) * 65536 + v.lo

(***************************************************************************)
(* parse_tokens, the built-ins that work on the tables, execute_pipeline   *)
(* and the body of main's loop, as functions of the state they find.       *)
(***************************************************************************)
\* the names is_builtin knows
Builtins ==
    {<<"c", "d">>,
     <<"e", "x", "i", "t">>,
     <<"m", "k", "d", "i", "r">>,
     <<"t", "o", "u", "c", "h">>,
     <<"c", "l", "e", "a", "r">>,
     <<"h", "e", "l", "p">>,
     <<"h", "i", "s", "t", "o", "r", "y">>,
     <<"h", "i", "s", "t", "s", "e", "a", "r", "c", "h">>,
     <<"j", "o", "b", "s">>,
     <<"f", "g">>,
     <<"b", "g">>,
     <<"a", "l", "i", "a", "s">>,
     <<"u", "n", "a", "l", "i", "a", "s">>,
     <<"s", "e", "t">>,
     <<"u", "n", "s", "e", "t">>,
     <<"v", "a", "r", "s">>,
     <<"a", "l", "i", "a", "s", "e", "s">>}

is_builtin(cmd) == cmd \in Builtins

\* cmd_t with no word and no redirection
NoCmd == [argv |-> <<>>, infile |-> {}, outfile |-> {}, append |-> FALSE]

\* parse_tokens: one round of while (i < ntoks) { .. } for token k, cur
\* being the command under construction: the index, cur and pipe after it.
\* (pipe.cmds has room for CMDS_MAX commands and pipe.ncmds is not tested.)
ParseRound(ts, k, c, pipe) ==
    IF ts[k] = <<"|">>
    THEN [k |-> k + 1, cur |-> NoCmd,
          pipe |-> [pipe EXCEPT !.cmds = Append(@, c)]]
    ELSE IF ts[k] = <<"<">>
    THEN IF k + 1 <= Len(ts)
         THEN [k |-> k + 2, cur |-> [c EXCEPT !.infile = {ts[k + 1]}],
               pipe |-> pipe]
         ELSE [k |-> k + 1, cur |-> c, pipe |-> pipe]
    ELSE IF ts[k] \in {<<">">>, <<">", ">">>}
    THEN IF k + 1 <= Len(ts)
         THEN [k |-> k + 2,
               cur |-> [c EXCEPT !.outfile = {ts[k + 1]},
                                 !.append = (ts[k] = <<">", ">">>)],
               pipe |-> pipe]
         ELSE [k |-> k + 1, cur |-> c, pipe |-> pipe]
    ELSE IF ts[k] = <<"&">>
    THEN [k |-> k + 1, cur |-> c,
          pipe |-> [pipe EXCEPT !.background = TRUE]]
    ELSE [k |-> k + 1,
          cur |-> [c EXCEPT !.argv = IF Len(@) < MAX_ARGS - 1
                                     THEN Append(@, ts[k]) ELSE @],
          pipe |-> pipe]

\* parse_tokens: after the loop, if (cur.argc > 0 || cur.infile ||
\* cur.outfile) { .. pipe.cmds[pipe.ncmds++] = cur; } return pipe;
ParseEnd(c, pipe) ==
    IF c.argv # <<>> \/ c.infile # {} \/ c.outfile # {}
    THEN [pipe EXCEPT !.cmds = Append(@, c)] ELSE pipe

\* parse_tokens: the loop from token k on and the end
RECURSIVE ParseFrom(_, _, _, _)
ParseFrom(ts, k, c, pipe) ==
    IF k > Len(ts) THEN ParseEnd(c, pipe)
    ELSE ParseFrom(ts, ParseRound(ts, k, c, pipe).k,
                   ParseRound(ts, k, c, pipe).cur,
                   ParseRound(ts, k, c, pipe).pipe)

parse_tokens(ts) ==
    ParseFrom(ts, 1, NoCmd, [cmds |-> <<>>, background |-> FALSE])

\* the directories chdir() finds
Dirs == {<<"d">>}

\* what a built-in leaves behind when it changes nothing and returns rc
Unchanged(rc) ==
    [rc |-> rc, aliases |-> aliases, shell_vars |-> shell_vars, cwd |-> cwd,
     jobs |-> jobs, exits |-> FALSE]

\* builtin_cd (paths without a tilde)
builtin_cd(argv) ==
    LET path == IF Len(argv) < 2 THEN Lookup(Environ, <<"H", "O", "M", "E">>) ELSE {argv[2]}
    IN IF path \subseteq Dirs /\ path # {}
       THEN [Unchanged(0) EXCEPT !.cwd = CHOOSE d \in path : TRUE]
       ELSE Unchanged(1)

\* builtin_alias: argc == 1 lists the table, argc >= 3 calls
\* add_alias(argv[1], argv[2] .. argv[argc-1] joined by spaces), argc == 2
\* is a usage error
builtin_alias(argv) ==
    IF Len(argv) = 1 THEN Unchanged(0)
    ELSE IF Len(argv) >= 3
    THEN [Unchanged(0) EXCEPT !.aliases = add_alias(argv[2], Join(argv, 3))]
    ELSE Unchanged(1)

builtin_unalias(argv) ==
    IF Len(argv) < 2 THEN Unchanged(1)
    ELSE IF Lookup(aliases, argv[2]) = {} THEN Unchanged(1)
    ELSE [Unchanged(0) EXCEPT !.aliases = RemoveEntry(aliases, argv[2])]

\* builtin_set: argc < 3 is a usage error, else set_shell_var(argv[1], argv[2])
builtin_set(argv) ==
    IF Len(argv) < 3 THEN Unchanged(1)
    ELSE [Unchanged(0) EXCEPT !.shell_vars = set_shell_var(argv[2], argv[3])]

builtin_unset(argv) ==
    IF Len(argv) < 2 THEN Unchanged(1)
    ELSE IF Lookup(shell_vars, argv[2]) = {} THEN Unchanged(1)
    ELSE [Unchanged(0) EXCEPT !.shell_vars = RemoveEntry(shell_vars, argv[2])]

\* run_builtin in the process that calls it.  exit does not return; jobs
\* prints the table and removes its DONE entries; the built-ins that only
\* print or that work on files (mkdir, touch, clear, help, history,
\* histsearch, vars, aliases) leave the tables alone; fg and bg are followed
\* step by step above and are typed by no line here.
run_builtin(argv) ==
    IF Len(argv) = 0 THEN Unchanged(0)
    ELSE IF argv[1] = <<"c", "d">> THEN builtin_cd(argv)
    ELSE IF argv[1] = <<"e", "x", "i", "t">> THEN [Unchanged(0) EXCEPT !.exits = TRUE]
    ELSE IF argv[1] = <<"j", "o", "b", "s">> THEN [Unchanged(0) EXCEPT !.jobs = remove_done_jobs]
    ELSE IF argv[1] = <<"a", "l", "i", "a", "s">> THEN builtin_alias(argv)
    ELSE IF argv[1] = <<"u", "n", "a", "l", "i", "a", "s">> THEN builtin_unalias(argv)
    ELSE IF argv[1] = <<"s", "e", "t">> THEN builtin_set(argv)
    ELSE IF argv[1] = <<"u", "n", "s", "e", "t">> THEN builtin_unset(argv)
    ELSE IF is_builtin(argv[1]) THEN Unchanged(0)
    ELSE Unchanged(127)


\* what the executor did for a line: nothing yet
NoRun == [where |-> "none", cmds |-> <<>>]

\* the value execute_pipeline returns after the foreground wait loop and
\* after a background launch
fg_return == 0

\* execute_pipeline, the alias expansion of one command: the words are
\* joined, expand_aliases is applied once, and a changed text is tokenized
\* again (at most MAX_ARGS - 1 words are kept)
ExpandCommand(c) ==
    IF c.argv = <<>> THEN c
    ELSE LET original_cmd == Join(c.argv, 1)
             expanded == expand_aliases(original_cmd)
         IN IF expanded = original_cmd THEN c
            ELSE [c EXCEPT !.argv =
                    LET new_toks == tokenize(expanded)
                    IN IF Len(new_toks) <= MAX_ARGS - 1 THEN new_toks
                       ELSE SubSeq(new_toks, 1, MAX_ARGS - 1)]

\* a faulty test for the single built-in: redirections are not looked at
InShell_redirected(c, n, background) ==
    n = 1 /\ is_builtin(c.argv[1]) /\ ~background

\* execute_pipeline: the test for the single built-in that is run in the
\* shell process, for command c of a pipeline of n commands
InShell(c, n, background) ==
    /\ n = 1 /\ is_builtin(c.argv[1]) /\ ~background
    /\ c.infile = {} /\ c.outfile = {}

\* execute_pipeline(pl, rawline) with every pipe() and fork() succeeding:
\* what the shell's tables are afterwards, what it returns (rc) and what
\* was run where.  The children are not followed here: each runs its
\* command (a built-in by run_builtin in the child, anything else by
\* execvp) in a process of its own, a foreground pipeline has run to its
\* end when execute_pipeline returns, a background pipeline leaves its job.
execute_pipeline(pipe, rawline) ==
    LET cmds == [k \in 1..Len(pipe.cmds) |-> ExpandCommand(pipe.cmds[k])]
        n == Len(cmds)
        forked == SelectSeq(cmds, LAMBDA c : c.argv # <<>>)
        pg == IF n > 0 /\ cmds[1].argv # <<>> THEN npids + 1 ELSE 0
    IN IF forked # <<>> /\ InShell(forked[1], n, pipe.background)
       THEN LET b == run_builtin(forked[1].argv)
            IN [rc |-> b.rc, aliases |-> b.aliases,
                shell_vars |-> b.shell_vars, cwd |-> b.cwd, jobs |-> b.jobs,
                next_job_id |-> next_job_id, npids |-> npids,
                exits |-> b.exits,
                ran |-> [where |-> "shell", cmds |-> <<forked[1].argv>>]]
       ELSE [rc |-> fg_return, aliases |-> aliases,
             shell_vars |-> shell_vars, cwd |-> cwd,
             jobs |-> IF pipe.background
                      THEN add_job(pg, rawline, JOB_RUNNING) ELSE jobs,
             next_job_id |-> IF pipe.background THEN add_job_next
                             ELSE next_job_id,
             npids |-> npids + Len(forked),
             exits |-> FALSE,
             ran |-> [where |-> IF forked = <<>> THEN "none" ELSE "child",
                      cmds |-> [k \in 1..Len(forked) |-> forked[k].argv]]]

\* main: what the history expansion makes of the line read: the line that
\* goes on, or none (if (rawline[0] == '!' && isdigit(rawline[1])) ..)
history_expansion(l) ==
    IF Len(l) >= 2 /\ l[1] = "!" /\ isdigit(l[2])
    THEN IF atoi(l, 2) >= 1 /\ atoi(l, 2) <= Len(history)
         THEN {history[atoi(l, 2)]} ELSE {}
    ELSE {l}

\* main: the body of the loop for the non-empty line l read at the prompt,
\* from the history expansion to the return of execute_pipeline
main_body(l) ==
    LET nothing == [rc |-> last_status, aliases |-> aliases,
                    shell_vars |-> shell_vars, cwd |-> cwd, jobs |-> jobs,
                    next_job_id |-> next_job_id, npids |-> npids,
                    exits |-> FALSE, ran |-> NoRun]
    IN IF history_expansion(l) = {}
       THEN [history |-> history, line |-> l, toks |-> <<>>, x |-> nothing]
       ELSE LET rawline == CHOOSE r \in history_expansion(l) : TRUE
                h == push_history(rawline)
            IN IF rawline[Len(rawline)] = "?"
               THEN [history |-> h, line |-> rawline,
                     toks |-> tokenize(expand_aliases(
                                 SubSeq(rawline, 1, Len(rawline) - 1))),
                     x |-> nothing]
               ELSE IF tokenize(rawline) = <<>>
               THEN [history |-> h, line |-> rawline, toks |-> <<>>,
                     x |-> nothing]
               ELSE [history |-> h, line |-> rawline,
                     toks |-> tokenize(rawline),
                     x |-> execute_pipeline(parse_tokens(tokenize(rawline)),
                                            rawline)]

\* the state of main's text before the first line is read (no history file,
\* no saved aliases and variables)
TextInit ==
    /\ line = <<>>
    /\ toks = <<>>
    /\ aliases = <<>>
    /\ shell_vars = <<>>
    /\ history = <<>>
    /\ cwd = <<"/">>
    /\ ran = NoRun
    /\ scan = 1

(***************************************************************************)
(* File descriptors.  A descriptor table maps the numbers 0..MaxFd to what *)
(* is open there: the terminal, an end of pipe k of the pipeline, a file,  *)
(* or nothing.  pipe() and open() take the lowest free numbers.            *)
(***************************************************************************)
FdNums == 0..MaxFd

Closed == [kind |-> "closed", k |-> 0, end |-> "-", name |-> <<>>]
Tty == [kind |-> "tty", k |-> 0, end |-> "rw", name |-> <<>>]
PipeEnd(k, e) == [kind |-> "pipe", k |-> k, end |-> e, name |-> <<>>]
FileFor(name, e) == [kind |-> "file", k |-> 0, end |-> e, name |-> name]

\* the table of a process with nothing open
NoFds == [n \in FdNums |-> Closed]

\* the shell's table when it starts: stdin, stdout and stderr on the terminal
ShellFds == [n \in FdNums |-> IF n <= 2 THEN Tty ELSE Closed]

\* the lowest number that is free in table t
Lowest(t) ==
    CHOOSE n \in FdNums : t[n] = Closed /\ \A m \in 0..(n - 1) : t[m] # Closed

\* pipe(pipefds + 2*(k-1)) for pipe k: the table afterwards and the two
\* numbers, read end first
pipe(t, k) ==
    LET r == Lowest(t)
        t1 == [t EXCEPT ![r] = PipeEnd(k, "r")]
        wr == Lowest(t1)
    IN [fds |-> [t1 EXCEPT ![wr] = PipeEnd(k, "w")], r |-> r, w |-> wr]

\* dup2(old, new): nothing happens when old is not open
dup2(t, old, new) == IF t[old] = Closed THEN t ELSE [t EXCEPT ![new] = t[old]]

\* close(fd)
close(t, fd) == [t EXCEPT ![fd] = Closed]

\* for (int j=0;j<2*(n-1);j++) close(pipefds[j]);  from entry j on
RECURSIVE CloseAll(_, _, _)
CloseAll(t, pfds, k) ==
    IF k > Len(pfds) THEN t ELSE CloseAll(close(t, pfds[k]), pfds, k + 1)

\* int fd = open(..); dup2(fd, target); close(fd);
OpenOnto(t, desc, target) ==
    LET fd == Lowest(t)
    IN close(dup2([t EXCEPT ![fd] = desc], fd, target), fd)

\* redirect_io with both open() calls succeeding
redirect_io(t, infile, outfile, append) ==
    LET t1 == IF infile = {} THEN t
              ELSE OpenOnto(t, FileFor(CHOOSE f \in infile : TRUE, "r"), 0)
    IN IF outfile = {} THEN t1
       ELSE OpenOnto(t1, FileFor(CHOOSE f \in outfile : TRUE,
                                 IF append THEN "a" ELSE "w"), 1)

\* a faulty child: the pipe descriptors are not closed after the dup2 calls
ChildFds_keeps_pipes(t, c, n, pfds, cmd) ==
    LET t1 == IF c > 1 THEN dup2(t, pfds[2 * (c - 1) - 1], 0) ELSE t
        t2 == IF c < n THEN dup2(t1, pfds[2 * c], 1) ELSE t1
    IN redirect_io(t2, cmd.infile, cmd.outfile, cmd.append)

\* the child for command c of n (counted from 1), from the dup2 calls to the
\* call of redirect_io: its table when it executes the command
ChildFds(t, c, n, pfds, cmd) ==
    LET t1 == IF c > 1 THEN dup2(t, pfds[2 * (c - 1) - 1], 0) ELSE t
        t2 == IF c < n THEN dup2(t1, pfds[2 * c], 1) ELSE t1
    IN redirect_io(CloseAll(t2, pfds, 1), cmd.infile, cmd.outfile,
                   cmd.append)

\* a child that was not forked
NoChild == [st |-> "none", fd |-> NoFds]

\* the descriptors before the first pipeline is executed
\* no config file yet (fopen fails and load_persistent_data returns)
ConfigInit == config = <<>> /\ at_exit = NoTables

FilesInit ==
    /\ fds = ShellFds
    /\ pipefds = <<>>
    /\ cfds = <<>>

Init ==
    /\ pc = "loop_top"
    /\ term = [cause |-> "none", saved |-> FALSE, code |-> 0]
    /\ jobs = <<>>
    /\ next_job_id = 1
    /\ fg_pgid = 0
    /\ tty = shell_pgid
    /\ procs = [q \in Pids |-> NoProc]
    /\ npids = 0
    /\ pl = NoLine
    /\ i = 0
    /\ pgid = 0
    /\ p = 0
    /\ w = 0
    /\ status = NoStatus
    /\ last_status = 0
    /\ j = 0
    /\ sigchld = FALSE
    /\ disp = [s \in Signals |-> "handler"]
    /\ sysv \in BOOLEAN
    /\ bgbase = 0
    /\ TextInit
    /\ FilesInit
    /\ cur = NoCmd
    /\ ConfigInit

Locals == <<pl, i, pgid, p, w, status, j>>
Table == <<jobs, next_job_id>>
Kernel == <<procs, npids, sigchld>>
Build == <<disp, sysv, bgbase>>
Text == <<line, toks, aliases, shell_vars, history, cwd, ran, scan>>
Files == <<fds, pipefds, cfds>>
Config == <<config, at_exit>>

\* return rc; from execute_pipeline to main: last_status = rc, and the
\* locals of the call are gone
Return(rc) ==
    /\ last_status' = rc
    /\ pc' = "loop_top"
    /\ pl' = NoLine /\ i' = 0 /\ pgid' = 0 /\ p' = 0 /\ w' = 0
    /\ status' = NoStatus /\ j' = 0

(***************************************************************************)
(* main: the interactive loop.                                             *)
(***************************************************************************)
\* while (1) { remove_done_jobs(); ... build the prompt
LoopTop ==
    /\ pc = "loop_top"
    /\ jobs' = remove_done_jobs
    /\ pc' = "prompt"
    /\ UNCHANGED <<term, next_job_id, fg_pgid, tty, last_status>>
    /\ UNCHANGED <<Locals, Kernel, Build, Text, Files, cur, Config>>

\* the shell process is gone: so is its memory, and its children are no
\* longer children of a shell
Gone ==
    /\ jobs' = <<>> /\ next_job_id' = 1 /\ fg_pgid' = 0 /\ last_status' = 0
    /\ pl' = NoLine /\ i' = 0 /\ pgid' = 0 /\ p' = 0 /\ w' = 0
    /\ status' = NoStatus /\ j' = 0
    /\ procs' = [q \in Pids |-> NoProc] /\ npids' = 0 /\ sigchld' = FALSE
    /\ disp' = [s \in Signals |-> "default"]

\* builtin_exit: save_history(); save_persistent_data(); exit(0)
builtin_exit(cause) ==
    /\ term' = [cause |-> cause, saved |-> TRUE, code |-> 0]
    /\ config' = save_persistent_data
    /\ at_exit' = Tables
    /\ pc' = "exited"
    /\ Gone

\* read_line returns NULL at end of input: builtin_exit(0, NULL)
ReadEof ==
    /\ pc = "prompt"
    /\ builtin_exit("eof")
    /\ UNCHANGED <<tty, sysv, bgbase, Text, Files, cur>>

\* if (line[0] == '\0') continue
ReadEmpty ==
    /\ pc = "prompt"
    /\ pc' = "loop_top"
    /\ UNCHANGED <<term, Table, fg_pgid, tty, last_status>>
    /\ UNCHANGED <<Locals, Kernel, Build, Text, Files, cur, Config>>

\* the lines the model types: a pipeline of n commands, with or without a
\* trailing &; skip says that its first command has no word (the line starts
\* with "|" or with a redirection), otherwise every command is an external
\* one
Lines == [type : {"pipeline"}, n : 1..MaxCmds, background : BOOLEAN,
          skip : BOOLEAN, id : {0}]

\* the number of jobs in the table that were inserted for a pipeline without
\* a child
Childless == Cardinality({k \in 1..Len(jobs) : jobs[k].pgid = 0})

\* the number of children execute_pipeline forks for line l
Forks(l) == IF l.skip THEN l.n - 1 ELSE l.n

\* a line of external commands: tokenize, parse_tokens, and execute_pipeline
\* up to the fork loop, every pipe() succeeding
ReadPipeline ==
    /\ pc = "prompt"
    /\ \E l \in Lines :
         /\ npids + Forks(l) <= MaxPid
         /\ (Forks(l) = 0 /\ l.background) => Childless < MaxChildless
         /\ pl' = l
         /\ i' = (IF l.skip THEN 2 ELSE 1)
         /\ pc' = (IF Forks(l) = 0
                   THEN (IF l.background THEN "bg_add" ELSE "fg_set")
                   ELSE "exec_fork")
    /\ pgid' = 0 /\ p' = 0 /\ w' = 0 /\ status' = NoStatus
    /\ UNCHANGED <<term, Table, fg_pgid, tty, last_status, j, Kernel>>
    /\ UNCHANGED <<Build, Text, Files, cur, Config>>

\* the same, a pipe() failing: if (pipe(..) < 0) { perror("pipe"); return 1; }
ReadPipelinePipeFails ==
    /\ pc = "prompt"
    /\ \E l \in Lines : l.n >= 2 /\ npids + l.n <= MaxPid
    /\ Return(1)
    /\ UNCHANGED <<term, Table, fg_pgid, tty, Kernel, Build, Text, Files, cur, Config>>

\* the line "exit": the single built-in is run in the shell process
ReadExit ==
    /\ pc = "prompt"
    /\ builtin_exit("exit")
    /\ UNCHANGED <<tty, sysv, bgbase, Text, Files, cur>>

\* the line "jobs": builtin_jobs: print_jobs(); remove_done_jobs(); return 0
ReadJobs ==
    /\ pc = "prompt"
    /\ jobs' = remove_done_jobs
    /\ Return(0)
    /\ UNCHANGED <<term, next_job_id, fg_pgid, tty, Kernel, Build, Text, Files, cur, Config>>

\* the ids a user types after fg or bg: those of the jobs started within the
\* window, and one of none
TypedIds == {jobs[k].id : k \in (bgbase + 1)..Len(jobs)} \cup {0}

\* the lines "fg ID" and "bg ID": builtin_fg / builtin_bg up to
\* job_t *j = find_job_by_id(id); if (!j) { ...; return 1; }
ReadFgBg ==
    /\ pc = "prompt"
    /\ \E t \in {"fg", "bg"}, id \in TypedIds :
         IF find_job_by_id(id) = 0
         THEN Return(1)
         ELSE /\ pl' = [NoLine EXCEPT !.type = t, !.id = id]
              /\ j' = find_job_by_id(id)
              /\ pc' = (IF t = "fg" THEN "fg_mark" ELSE "bg_mark")
              /\ UNCHANGED <<last_status, i, pgid, p, w, status>>
    /\ UNCHANGED <<term, Table, fg_pgid, tty, Kernel, Build, Text, Files, cur, Config>>

(***************************************************************************)
(* execute_pipeline.                                                       *)
(***************************************************************************)
AfterForks == IF pl.background THEN "bg_add" ELSE "fg_set"

\* if (c->argc == 0) continue;  ...  p = fork();
\* parent: if (i==0) pgid = p; setpgid(p, pgid);
\* setpgid(p, 0) makes p the leader of a group of its own; setpgid into a
\* group that no longer exists fails and the child stays in the shell's
\* group.  The child's tcsetpgrp(STDIN_FILENO, 0) fails.
ExecFork ==
    /\ pc = "exec_fork"
    /\ LET q == npids + 1
           g == IF i = 1 THEN q ELSE pgid
       IN /\ npids' = q
          /\ p' = q
          /\ pgid' = g
          /\ procs' = [procs EXCEPT ![q] =
                 [NoProc EXCEPT !.st = "forked",
                                !.pgid = IF g = 0 THEN q
                                         ELSE IF i = 1 \/ GroupExists(g)
                                         THEN g ELSE shell_pgid,
                                !.fg = ~pl.background /\ g # 0]]
    /\ i' = i + 1
    /\ pc' = IF i = pl.n THEN AfterForks ELSE "exec_fork"
    /\ UNCHANGED <<term, Table, fg_pgid, tty, last_status>>
    /\ UNCHANGED <<pl, w, status, j, sigchld, Build, Text, Files, cur, Config>>

\* if (p < 0) { perror("fork"); return 1; }
ExecForkFails ==
    /\ pc = "exec_fork"
    /\ Return(1)
    /\ UNCHANGED <<term, Table, fg_pgid, tty, Kernel, Build, Text, Files, cur, Config>>

\* if (pl->background) { add_job(pgid, rawline, JOB_RUNNING); ... } return 0
BgAdd ==
    /\ pc = "bg_add"
    /\ jobs' = add_job(pgid, pl, JOB_RUNNING)
    /\ next_job_id' = add_job_next
    /\ Return(0)
    /\ UNCHANGED <<term, fg_pgid, tty, Kernel, Build, Text, Files, cur, Config>>

\* fg_pgid = pgid; tcsetpgrp(STDIN_FILENO, pgid);
FgSet ==
    /\ pc = "fg_set"
    /\ fg_pgid' = pgid
    /\ tty' = tcsetpgrp(pgid)
    /\ pc' = "fg_wait"
    /\ UNCHANGED <<term, Table, last_status, Locals, Kernel, Build, Text, Files, cur, Config>>

\* pid_t w = waitpid(-pgid, &status, WUNTRACED);
\* if (w == -1) { ECHILD: break; EINTR: continue; }
\* if (WIFSTOPPED(status)) { add_job(pgid, rawline, JOB_STOPPED); break; }
FgWait ==
    /\ pc = "fg_wait"
    /\ \/ /\ ~HasChildren(pgid)
          /\ w' = -1
          /\ pc' = "fg_restore"
          /\ UNCHANGED <<Table, procs, status>>
       \/ \E q \in OfGroup(pgid) : \E ws \in Reports(procs, q, TRUE, FALSE) :
          /\ procs' = Collected(procs, q, ws)
          /\ w' = q
          /\ status' = ws
          /\ IF ws = Stopped
             THEN /\ jobs' = add_job(pgid, pl, JOB_STOPPED)
                  /\ next_job_id' = add_job_next
                  /\ pc' = "fg_restore"
             ELSE /\ UNCHANGED Table
                  /\ pc' = "fg_wait2"
    /\ UNCHANGED <<term, fg_pgid, tty, last_status>>
    /\ UNCHANGED <<pl, i, pgid, p, j, npids, sigchld, Build, Text, Files, cur, Config>>

\* pid_t r = waitpid(-pgid, &status, WNOHANG); if (r == -1 || r == 0) break;
FgWait2 ==
    /\ pc = "fg_wait2"
    /\ \/ /\ \A q \in OfGroup(pgid) : Reports(procs, q, FALSE, FALSE) = {}
          /\ pc' = "fg_restore"
          /\ UNCHANGED <<procs, status, w>>
       \/ \E q \in OfGroup(pgid) : \E ws \in Reports(procs, q, FALSE, FALSE) :
          /\ procs' = Collected(procs, q, ws)
          /\ w' = q
          /\ status' = ws
          /\ pc' = "fg_wait"
    /\ UNCHANGED <<term, Table, fg_pgid, tty, last_status>>
    /\ UNCHANGED <<pl, i, pgid, p, j, npids, sigchld, Build, Text, Files, cur, Config>>

\* tcsetpgrp(STDIN_FILENO, shell_pgid); fg_pgid = 0; } return 0;
FgRestore ==
    /\ pc = "fg_restore"
    /\ tty' = tcsetpgrp(shell_pgid)
    /\ fg_pgid' = 0
    /\ Return(fg_return)
    /\ UNCHANGED <<term, Table, Kernel, Build, Text, Files, cur, Config>>

(***************************************************************************)
(* builtin_fg and builtin_bg, after a successful find_job_by_id.           *)
(***************************************************************************)
\* j->state = JOB_RUNNING;   (fg)
FgMark ==
    /\ pc = "fg_mark"
    /\ jobs' = [jobs EXCEPT ![j].state = JOB_RUNNING]
    /\ pc' = "fg_cont"
    /\ UNCHANGED <<term, next_job_id, fg_pgid, tty, last_status>>
    /\ UNCHANGED <<Locals, Kernel, Build, Text, Files, cur, Config>>

\* tcsetpgrp(STDIN_FILENO, j->pgid); fg_pgid = j->pgid; kill(-j->pgid, SIGCONT)
FgCont ==
    /\ pc = "fg_cont"
    /\ tty' = tcsetpgrp(jobs[j].pgid)
    /\ fg_pgid' = jobs[j].pgid
    /\ procs' = Signal(procs, jobs[j].pgid, "SIGCONT")
    /\ pc' = "fg_waitpid"
    /\ UNCHANGED <<term, Table, last_status, Locals, npids, sigchld>>
    /\ UNCHANGED <<Build, Text, Files, cur, Config>>

\* waitpid(-j->pgid, &status, WUNTRACED);   one call, its result not looked at
FgWaitpid ==
    /\ pc = "fg_waitpid"
    /\ \/ /\ ~HasChildren(jobs[j].pgid)
          /\ UNCHANGED <<procs, status, w>>
       \/ \E q \in OfGroup(jobs[j].pgid) :
            \E ws \in Reports(procs, q, TRUE, FALSE) :
              /\ procs' = Collected(procs, q, ws)
              /\ w' = q
              /\ status' = ws
    /\ pc' = "fg_done"
    /\ UNCHANGED <<term, Table, fg_pgid, tty, last_status>>
    /\ UNCHANGED <<pl, i, pgid, p, j, npids, sigchld, Build, Text, Files, cur, Config>>

\* tcsetpgrp(STDIN_FILENO, shell_pgid); fg_pgid = 0; return 0;
FgDone ==
    /\ pc = "fg_done"
    /\ tty' = tcsetpgrp(shell_pgid)
    /\ fg_pgid' = 0
    /\ Return(0)
    /\ UNCHANGED <<term, Table, Kernel, Build, Text, Files, cur, Config>>

\* j->state = JOB_RUNNING;   (bg)
BgMark ==
    /\ pc = "bg_mark"
    /\ jobs' = [jobs EXCEPT ![j].state = JOB_RUNNING]
    /\ pc' = "bg_cont"
    /\ UNCHANGED <<term, next_job_id, fg_pgid, tty, last_status>>
    /\ UNCHANGED <<Locals, Kernel, Build, Text, Files, cur, Config>>

\* a faulty builtin_bg: the terminal is handed over as builtin_fg does
BgCont_terminal ==
    /\ pc = "bg_cont"
    /\ tty' = tcsetpgrp(jobs[j].pgid)
    /\ fg_pgid' = jobs[j].pgid
    /\ procs' = Signal(procs, jobs[j].pgid, "SIGCONT")
    /\ Return(0)
    /\ UNCHANGED <<term, Table, npids, sigchld, Build, Text, Files, cur, Config>>

\* if (kill(-j->pgid, SIGCONT) < 0) perror(..); return 0;
BgCont ==
    /\ pc = "bg_cont"
    /\ procs' = Signal(procs, jobs[j].pgid, "SIGCONT")
    /\ Return(0)
    /\ UNCHANGED <<term, Table, fg_pgid, tty, npids, sigchld, Build, Text, Files, cur, Config>>

(***************************************************************************)
(* sigchld_handler.  SIGCHLD is raised by a child that terminates          *)
(* (SA_NOCLDSTOP) and is blocked while the handler runs.  The handler      *)
(* collects every status there is, in the order the kernel finds them.     *)
(***************************************************************************)
\* getpgid(pid) after the waitpid: -1 once the child was reaped
getpgid(ps, q, ws) ==
    IF ws.kind \in {"exited", "signaled"} THEN -1 ELSE ps[q].pgid

\* the job the handler's for loop stops at for child q, 0 for none
HandlerJob(js, ps, q, ws) ==
    LET hit(k) == js[k].pgid > 0
                  /\ (q = js[k].pgid \/ getpgid(ps, q, ws) = js[k].pgid)
    IN IF \E k \in 1..Len(js) : hit(k)
       THEN CHOOSE k \in 1..Len(js) : hit(k) /\ \A m \in 1..(k-1) : ~hit(m)
       ELSE 0

\* the state the handler writes for status ws
HandlerState(ws) ==
    IF ws.kind \in {"exited", "signaled"} THEN JOB_DONE
    ELSE IF ws.kind = "stopped" THEN JOB_STOPPED
    ELSE JOB_RUNNING

\* the body of the while loop for one collected child
HandlerRound(js, ps, q, ws) ==
    IF HandlerJob(js, ps, q, ws) = 0 THEN js
    ELSE [js EXCEPT ![HandlerJob(js, ps, q, ws)].state = HandlerState(ws)]

\* while ((pid = waitpid(-1, &status, WNOHANG|WUNTRACED|WCONTINUED)) > 0):
\* the pairs <<job table, process table>> the loop can end with
RECURSIVE HandlerLoop(_, _)
HandlerLoop(js, ps) ==
    LET ready == {q \in Forked : Reports(ps, q, TRUE, TRUE) # {}}
    IN IF ready = {} THEN {<<js, ps>>}
       ELSE UNION {
              UNION { HandlerLoop(HandlerRound(js, ps, q, ws),
                                  Collected(ps, q, ws))
                      : ws \in Reports(ps, q, TRUE, TRUE) }
              : q \in ready }

sigchld_handler ==
    /\ Alive /\ sigchld
    /\ sigchld' = FALSE
    /\ \E r \in HandlerLoop(jobs, procs) :
         /\ jobs' = r[1]
         /\ procs' = r[2]
    /\ UNCHANGED <<pc, term, next_job_id, fg_pgid, tty, last_status>>
    /\ UNCHANGED <<Locals, npids, Build, Text, Files, cur, Config>>

(***************************************************************************)
(* SIGINT and SIGTSTP delivered to the shell process.                      *)
(* signal(SIGINT, sigint_handler) under the feature macros of the file     *)
(* (_POSIX_C_SOURCE, no _DEFAULT_SOURCE) is System V signal() on glibc:    *)
(* the handler is reset to SIG_DFL when it is entered and an interrupted   *)
(* call is not restarted.  Elsewhere it is BSD signal(): the handler stays *)
(* and calls restart.  sysv says which of the two the build has.           *)
(***************************************************************************)
\* forward_signal_to_fg: if (fg_pgid > 0) kill(-fg_pgid, signo);
forward_signal_to_fg(sig) ==
    IF fg_pgid > 0 THEN Signal(procs, fg_pgid, sig) ELSE procs

\* the disposition of sig after its handler was entered
AfterDelivery(sig) ==
    IF sysv THEN [disp EXCEPT ![sig] = "default"] ELSE disp

\* sigint_handler / sigtstp_handler run, between two statements of the main
\* program or in a call that is restarted
ShellSignal ==
    /\ Alive
    /\ \E sig \in Signals :
        /\ disp[sig] = "handler"
        /\ ~(sysv /\ pc \in {"prompt", "fg_waitpid"})
        /\ procs' = forward_signal_to_fg(sig)
        /\ sigchld' = (sigchld \/ Raises(forward_signal_to_fg(sig)))
        /\ disp' = AfterDelivery(sig)
    /\ UNCHANGED <<pc, term, Table, fg_pgid, tty, last_status>>
    /\ UNCHANGED <<Locals, npids, sysv, bgbase, Text, Files, cur, Config>>

\* they run while fgets() in read_line is blocked and the call is not
\* restarted: fgets returns NULL, which main takes for the end of input
ShellSignalAtPrompt ==
    /\ pc = "prompt" /\ sysv
    /\ \E sig \in Signals : disp[sig] = "handler"
    /\ builtin_exit("eintr")
    /\ UNCHANGED <<tty, sysv, bgbase, Text, Files, cur, Config>>

\* they run while builtin_fg's waitpid() is blocked and the call is not
\* restarted: waitpid returns -1 (EINTR) and builtin_fg goes on
ShellSignalAtFgWaitpid ==
    /\ pc = "fg_waitpid" /\ sysv
    /\ \E sig \in Signals :
        /\ disp[sig] = "handler"
        /\ procs' = forward_signal_to_fg(sig)
        /\ sigchld' = (sigchld \/ Raises(forward_signal_to_fg(sig)))
        /\ disp' = AfterDelivery(sig)
    /\ w' = -1
    /\ pc' = "fg_done"
    /\ UNCHANGED <<term, Table, fg_pgid, tty, last_status>>
    /\ UNCHANGED <<pl, i, pgid, p, status, j, npids, sysv, bgbase, Text, Files, cur, Config>>

\* the signal finds SIG_DFL: the shell is terminated or stopped
ShellSignalDefault ==
    /\ Alive
    /\ \E sig \in Signals :
        /\ disp[sig] = "default"
        /\ pc' = (IF sig = "SIGINT" THEN "killed" ELSE "suspended")
        /\ term' = [cause |-> sig, saved |-> FALSE,
                    code |-> IF sig = "SIGINT" THEN 130 ELSE 0]
    /\ Gone
    /\ UNCHANGED <<tty, sysv, bgbase, Text, Files, cur, Config>>

(***************************************************************************)
(* The children and the terminal.                                          *)
(***************************************************************************)
\* child: setpgid(0, pgid); if (!pl->background) tcsetpgrp(STDIN_FILENO, pgid);
\* (both fail for a child whose group is gone: it stays in the shell's group)
\* ... execvp(c->argv[0], c->argv) finds the command, or
\* fprintf(stderr, "mysh: command not found: ..."); exit(127);
ChildStart ==
    /\ Alive
    /\ \E q \in Forked, found \in BOOLEAN :
        /\ procs[q].st = "forked"
        /\ tty' = IF procs[q].fg /\ procs[q].pgid # shell_pgid
                  THEN tcsetpgrp(procs[q].pgid) ELSE tty
        /\ procs' = [procs EXCEPT ![q] =
              IF found
              THEN [@ EXCEPT !.st = "run", !.fg = FALSE]
              ELSE [@ EXCEPT !.st = "zombie", !.wstat = Exited(127),
                             !.fg = FALSE]]
        /\ sigchld' = (sigchld \/ ~found)
    /\ UNCHANGED <<pc, term, Table, fg_pgid, last_status>>
    /\ UNCHANGED <<Locals, npids, Build, Text, Files, cur, Config>>

\* the command a child runs calls exit(c)
ChildExit ==
    /\ Alive
    /\ \E q \in Forked, c \in ExitCodes :
        /\ procs[q].st = "run"
        /\ procs' = [procs EXCEPT ![q] =
              [@ EXCEPT !.st = "zombie", !.wstat = Exited(c),
                        !.cont_pending = FALSE]]
    /\ sigchld' = TRUE
    /\ UNCHANGED <<pc, term, Table, fg_pgid, tty, last_status>>
    /\ UNCHANGED <<Locals, npids, Build, Text, Files, cur, Config>>

\* Ctrl-C or Ctrl-Z while a group of children owns the terminal
TtySignal ==
    /\ Alive /\ tty # shell_pgid
    /\ \E sig \in Signals :
        /\ Signal(procs, tty, sig) # procs
        /\ procs' = Signal(procs, tty, sig)
        /\ sigchld' = (sigchld \/ Raises(Signal(procs, tty, sig)))
    /\ UNCHANGED <<pc, term, Table, fg_pgid, tty, last_status>>
    /\ UNCHANGED <<Locals, npids, Build, Text, Files, cur, Config>>

Next ==
    \/ LoopTop \/ ReadEof \/ ReadEmpty \/ ReadPipeline
    \/ ReadPipelinePipeFails \/ ReadExit \/ ReadJobs \/ ReadFgBg
    \/ ExecFork \/ ExecForkFails \/ BgAdd \/ FgSet \/ FgWait
    \/ FgWait2 \/ FgRestore
    \/ FgMark \/ FgCont \/ FgWaitpid \/ FgDone \/ BgMark \/ BgCont
    \/ sigchld_handler
    \/ ShellSignal \/ ShellSignalAtPrompt \/ ShellSignalAtFgWaitpid
    \/ ShellSignalDefault
    \/ ChildStart \/ ChildExit \/ TtySignal

Spec == Init /\ [][Next]_vars

(***************************************************************************)
(* The same program later in a session: MAX_JOBS - 1 background jobs were  *)
(* started before the window and are still running, so the job table       *)
(* fills up within the window.                                             *)
(***************************************************************************)
EarlierJob(k) ==
    [id |-> k, pgid |-> MaxPid + k,
     cmdline |-> [type |-> "pipeline", n |-> 1, background |-> TRUE,
                  skip |-> FALSE, id |-> 0],
     state |-> JOB_RUNNING]

InitFull ==
    /\ pc = "loop_top"
    /\ term = [cause |-> "none", saved |-> FALSE, code |-> 0]
    /\ jobs = [k \in 1..(MAX_JOBS - 1) |-> EarlierJob(k)]
    /\ next_job_id = MAX_JOBS
    /\ fg_pgid = 0
    /\ tty = shell_pgid
    /\ procs = [q \in Pids |-> NoProc]
    /\ npids = 0
    /\ pl = NoLine
    /\ i = 0
    /\ pgid = 0
    /\ p = 0
    /\ w = 0
    /\ status = NoStatus
    /\ last_status = 0
    /\ j = 0
    /\ sigchld = FALSE
    /\ disp = [s \in Signals |-> "handler"]
    /\ sysv \in BOOLEAN
    /\ bgbase = MAX_JOBS - 1
    /\ TextInit
    /\ FilesInit
    /\ cur = NoCmd
    /\ ConfigInit

SpecFull == InitFull /\ [][Next]_vars

(***************************************************************************)
(* tokenize on its own: the line is any string of at most MaxLen           *)
(* characters of TokChars, or one of the long lines of LongLines, whose    *)
(* numbers of words lie around MAX_TOKENS.                                 *)
(***************************************************************************)
TokChars == {"a", "b", " ", "\"", "'", "\\", "$", "|"}

\* the line "a a a ... a " of k words
Repeated(k) == [n \in 1..(2 * k) |-> IF n % 2 = 1 THEN "a" ELSE " "]

LongLines == {Repeated(k) : k \in (MAX_TOKENS - 2)..(MAX_TOKENS + 1)}

TokLines == UNION {[1..n -> TokChars] : n \in 0..MaxLen} \cup LongLines

InitTok ==
    /\ pc = "tokenize"
    /\ term = [cause |-> "none", saved |-> FALSE, code |-> 0]
    /\ jobs = <<>>
    /\ next_job_id = 1
    /\ fg_pgid = 0
    /\ tty = shell_pgid
    /\ procs = [q \in Pids |-> NoProc]
    /\ npids = 0
    /\ pl = NoLine
    /\ i = 0
    /\ pgid = 0
    /\ p = 0
    /\ w = 0
    /\ status = NoStatus
    /\ last_status = 0
    /\ j = 0
    /\ sigchld = FALSE
    /\ disp = [s \in Signals |-> "handler"]
    /\ sysv = FALSE
    /\ bgbase = 0
    /\ line \in TokLines
    /\ toks = <<>>
    /\ aliases = <<>>
    /\ shell_vars = <<>>
    /\ history = <<>>
    /\ cwd = <<"/">>
    /\ ran = NoRun
    /\ scan = 1
    /\ FilesInit
    /\ cur = NoCmd
    /\ ConfigInit

\* char **toks = tokenize(rawline, &ntoks);  one round of its loop
\* while (*p) { .. } per step
Tokenize ==
    /\ pc = "tokenize"
    /\ LET r == TokenizeRound(line, scan, toks)
       IN /\ toks' = r.toks
          /\ scan' = r.k
          /\ pc' = IF r.done \/ r.k > Len(line) THEN "tokenized"
                   ELSE "tokenize"
    /\ UNCHANGED <<term, Table, fg_pgid, tty, last_status, Locals, Kernel>>
    /\ UNCHANGED <<Build, line, aliases, shell_vars, history, cwd, ran, Files, cur, Config>>

NextTok == Tokenize

SpecTok == InitTok /\ [][NextTok]_vars

(***************************************************************************)
(* The shell at the level of its text: the lines of TextLines are typed at *)
(* the prompt and the body of main's loop is run for each, with the        *)
(* tokenizer, the history, the alias and variable tables, and the choice   *)
(* of the process a built-in runs in.  At most MaxHist lines are kept in   *)
(* the history and at most MaxForks children are forked.                   *)
(***************************************************************************)
\* alias hi='echo hey'
L_alias_hi_quoted ==
    <<"a", "l", "i", "a", "s", " ", "h", "i", "=", "'", "e", "c", "h", "o", " ", "h", "e", "y", "'">>
\* alias hi echo hey
L_alias_hi ==
    <<"a", "l", "i", "a", "s", " ", "h", "i", " ", "e", "c", "h", "o", " ", "h", "e", "y">>
\* hi there
L_hi_there ==
    <<"h", "i", " ", "t", "h", "e", "r", "e">>
\* set X=42
L_set_X_eq ==
    <<"s", "e", "t", " ", "X", "=", "4", "2">>
\* set X 42
L_set_X ==
    <<"s", "e", "t", " ", "X", " ", "4", "2">>
\* echo $X
L_echo_X ==
    <<"e", "c", "h", "o", " ", "$", "X">>
\* alias a a b
L_alias_a ==
    <<"a", "l", "i", "a", "s", " ", "a", " ", "a", " ", "b">>
\* a c
L_a_c ==
    <<"a", " ", "c">>
\* alias m n
L_alias_m ==
    <<"a", "l", "i", "a", "s", " ", "m", " ", "n">>
\* alias n m
L_alias_n ==
    <<"a", "l", "i", "a", "s", " ", "n", " ", "m">>
\* m x
L_m_x ==
    <<"m", " ", "x">>
\* !1
L_bang_1 ==
    <<"!", "1">>
\* !2
L_bang_2 ==
    <<"!", "2">>
\* !3
L_bang_3 ==
    <<"!", "3">>
\* !4
L_bang_4 ==
    <<"!", "4">>
\* !4294967297
L_bang_wrap_1 ==
    <<"!", "4", "2", "9", "4", "9", "6", "7", "2", "9", "7">>
\* cd d
L_cd ==
    <<"c", "d", " ", "d">>
\* cd d &
L_cd_bg ==
    <<"c", "d", " ", "d", " ", "&">>
\* set Y 1 > f
L_set_redirected ==
    <<"s", "e", "t", " ", "Y", " ", "1", " ", ">", " ", "f">>
\* alias q w | x
L_alias_piped ==
    <<"a", "l", "i", "a", "s", " ", "q", " ", "w", " ", "|", " ", "x">>
\* unset X
L_unset_X ==
    <<"u", "n", "s", "e", "t", " ", "X">>

TextLines ==
    {L_alias_hi_quoted,
     L_alias_hi,
     L_hi_there,
     L_set_X_eq,
     L_set_X,
     L_echo_X,
     L_alias_a,
     L_a_c,
     L_alias_m,
     L_alias_n,
     L_m_x,
     L_bang_1,
     L_bang_2,
     L_bang_3,
     L_bang_4,
     L_bang_wrap_1,
     L_cd,
     L_cd_bg,
     L_set_redirected,
     L_alias_piped,
     L_unset_X}

InitText == Init /\ sysv = FALSE

\* line = read_line(..) returns l; the body of the loop up to the next
\* round
TypeLine ==
    /\ pc = "prompt"
    /\ \E l \in TextLines : \E r \in {main_body(l)} :
           /\ Len(r.history) <= MaxHist
           /\ r.x.npids <= MaxForks
           /\ history' = r.history
           /\ line' = l
           /\ toks' = r.toks
           /\ ran' = r.x.ran
           /\ aliases' = r.x.aliases
           /\ shell_vars' = r.x.shell_vars
           /\ cwd' = r.x.cwd
           /\ jobs' = r.x.jobs
           /\ next_job_id' = r.x.next_job_id
           /\ npids' = r.x.npids
           /\ last_status' = r.x.rc
           /\ pc' = "loop_top"
    /\ UNCHANGED <<term, fg_pgid, tty, Locals, procs, sigchld, Build, scan,
                 Files, cur, Config>>

NextText == LoopTop \/ TypeLine

SpecText == InitText /\ [][NextText]_vars

(***************************************************************************)
(* The properties.                                                         *)
(***************************************************************************)
\* the jobs of the table that hold group g
JobsOf(g) == {k \in 1..Len(jobs) : jobs[k].pgid = g}

\* the main program returns from execute_pipeline or a built-in to main
Returns(from) == pc = from /\ pc' = "loop_top"

\* C1: whenever the shell is about to print a prompt, after any return path
\* of execute_pipeline (a pipe() or fork() failure included) and after fg,
\* the terminal's foreground process group is shell_pgid.
C1_TerminalAtPrompt == pc = "prompt" => tty = shell_pgid

\* C2: when the wait loop of a foreground pipeline in which no child stopped
\* exits, every child of the pipeline's group has terminated and has been
\* reaped: none is left in the process table.
C2_ForegroundReaped ==
    (/\ pc = "fg_restore"
     /\ status # Stopped
     /\ \A q \in Group(pgid) : procs[q].st # "stopped")
    => Group(pgid) = {}

\* C3: every job inserted into the table gets an id >= 1 that is greater
\* than every id assigned before: next_job_id never decreases and bounds
\* the ids of the table from above, an entry that is new has an id of at
\* least the old next_job_id, and no two entries share an id.
C3_JobIdsIncrease ==
    [][Alive' =>
        /\ next_job_id' >= next_job_id
        /\ \A k \in 1..Len(jobs') :
             /\ jobs'[k].id >= 1
             /\ jobs'[k].id < next_job_id'
             /\ (\A m \in 1..Len(jobs) : jobs[m].id # jobs'[k].id)
                    => jobs'[k].id >= next_job_id
             /\ \A m \in 1..Len(jobs') : jobs'[m].id = jobs'[k].id => m = k
    ]_vars

\* C3: a job with id 2 is in the table after the job with id 1 was removed
C3_Witness == Alive /\ Len(jobs) = 1 /\ jobs[1].id = 2

\* the entry execute_pipeline's add_job call writes for the current line
NewJob(state) ==
    [id |-> next_job_id, pgid |-> pgid, cmdline |-> pl, state |-> state]

\* a child that was forked for a background pipeline starts
BackgroundChildStarts ==
    \E q \in Pids : /\ procs[q].st = "forked" /\ ~procs[q].fg
                    /\ procs'[q].st # "forked"

\* C4 as stated: for any pipeline with the background flag set the executor
\* inserts a RUNNING job carrying the raw command line and returns to the
\* main loop without a wait on the children; the terminal is not handed to
\* the background group.
C4_BackgroundJobInserted ==
    [][/\ (pl.background /\ (Returns("exec_fork") \/ Returns("bg_add")))
            => /\ jobs' = Append(jobs, NewJob(JOB_RUNNING))
               /\ procs' = procs
               /\ tty' = tty
       /\ BackgroundChildStarts => tty' = tty
    ]_vars

\* C4 amended: when every child of a background pipeline was forked, the
\* executor inserts a RUNNING job carrying the group and the raw command
\* line if the table holds fewer than MAX_JOBS entries and inserts nothing
\* if it is full; either way it returns to the main loop without a wait on
\* the children, and the terminal is not handed to the background group.
\* When a fork() fails it returns without inserting a job.
C4_BackgroundJobInsertedIfRoom ==
    [][/\ (pl.background /\ Returns("bg_add"))
            => /\ jobs' = IF Len(jobs) < MAX_JOBS
                          THEN Append(jobs, NewJob(JOB_RUNNING)) ELSE jobs
               /\ procs' = procs
               /\ tty' = tty
       /\ (pl.background /\ Returns("exec_fork"))
            => jobs' = jobs /\ procs' = procs /\ tty' = tty
       /\ BackgroundChildStarts => tty' = tty
    ]_vars

\* C4: the shell is back in the main loop, the job of a background pipeline
\* took the last slot of the table, its child still runs, and the terminal
\* is the shell's
C4_Witness ==
    /\ pc = "loop_top"
    /\ Len(jobs) = MAX_JOBS
    /\ jobs[MAX_JOBS].state = JOB_RUNNING
    /\ jobs[MAX_JOBS].cmdline.background
    /\ jobs[MAX_JOBS].pgid \in Pids
    /\ procs[jobs[MAX_JOBS].pgid].st = "run"
    /\ tty = shell_pgid

\* C5: a SIGINT or SIGTSTP delivered to the shell is passed on to fg_pgid or
\* swallowed; the shell itself is never terminated or stopped by it (nor
\* made to leave its loop by it).
C5_ShellSurvivesSignals ==
    term.cause \notin {"SIGINT", "SIGTSTP", "eintr"}

\* C6: when a child of the running foreground pipeline stops, the executor
\* leaves its wait loop (its waitpid has a status to return) and a STOPPED
\* job holding the pipeline's pgid and raw command line is in the table when
\* it does, under every interleaving with sigchld_handler.
C6_StopReturnsControl ==
    /\ (pc = "fg_wait" /\ \E q \in Group(pgid) : procs[q].st = "stopped")
          => \E q \in Group(pgid) : Reports(procs, q, TRUE, FALSE) # {}
    /\ (pc = "fg_restore" /\ \E q \in Group(pgid) : procs[q].st = "stopped")
          => \E k \in JobsOf(pgid) :
                jobs[k].state = JOB_STOPPED /\ jobs[k].cmdline = pl

\* C7: the status execute_pipeline returns for a foreground pipeline is the
\* exit status of its last command (127 when its execvp failed, otherwise
\* what the last child exited with), here whenever the last waitpid of the
\* loop collected that child's exit; for a background pipeline it is 0.
C7_ReturnsLastExitStatus ==
    [][/\ (Returns("fg_restore") /\ w = p /\ status.kind = "exited")
            => last_status' = status.code
       /\ (pl.background /\ Returns("bg_add")) => last_status' = 0
    ]_vars

\* C8: the shell process terminates only through the exit built-in or the
\* end of the input, with history and configuration saved and exit code 0.
C8_ExitsOnlyByExitOrEof ==
    pc \in {"exited", "killed"}
    => term.cause \in {"exit", "eof"} /\ term.saved /\ term.code = 0

\* C9: fg ID returns only after the job's process group has stopped or all
\* of its processes have exited, and on return the terminal's foreground
\* group is the shell's and fg_pgid is 0.
C9_FgWaitsForGroup ==
    [][Returns("fg_done") =>
        /\ \A q \in Group(jobs[j].pgid) : procs[q].st # "run"
        /\ tty' = shell_pgid
        /\ fg_pgid' = 0
    ]_vars

\* C10: bg ID on a STOPPED job sets its state to RUNNING, sends SIGCONT to
\* its group and returns without a wait; the job keeps its place, id, pgid
\* and command line, and the terminal, fg_pgid, every other job and every
\* other process are left as they were.
C10_BgFrame ==
    [][/\ (pc = "bg_mark" /\ pc' = "bg_cont")
            => /\ jobs' = [jobs EXCEPT ![j].state = JOB_RUNNING]
               /\ next_job_id' = next_job_id
               /\ procs' = procs
               /\ tty' = tty
               /\ fg_pgid' = fg_pgid
       /\ Returns("bg_cont")
            => /\ jobs' = jobs
               /\ next_job_id' = next_job_id
               /\ tty' = tty
               /\ fg_pgid' = fg_pgid
               /\ \A q \in Pids :
                    IF q \in Group(jobs[j].pgid) /\ procs[q].st = "stopped"
                    THEN procs'[q].st = "run" /\ procs'[q].pgid = procs[q].pgid
                    ELSE procs'[q] = procs[q]
    ]_vars

\* C10: bg was typed for a STOPPED job: the job is marked RUNNING and the
\* stopped process of its group is about to be continued
C10_Witness ==
    /\ pc = "bg_cont"
    /\ jobs[j].state = JOB_RUNNING
    /\ \E q \in Group(jobs[j].pgid) : procs[q].st = "stopped"

\* the first entry of the table that tracks group g, 0 for none
TrackedJob(g) ==
    IF JobsOf(g) = {} THEN 0
    ELSE CHOOSE k \in JobsOf(g) : \A m \in JobsOf(g) : k <= m

\* C20: every status sigchld_handler reaps for a process of a tracked job's
\* group, the leader or a later member, sets that job's state (DONE for an
\* exit or a kill, STOPPED for a stop, RUNNING for a continue); a status of
\* a process in no tracked group leaves the table as it was.
C20_HandlerUpdatesGroupJob ==
    (Alive /\ sigchld) =>
        \A q \in Forked : \A ws \in Reports(procs, q, TRUE, TRUE) :
            LET k == TrackedJob(procs[q].pgid)
            IN IF k # 0
               THEN HandlerRound(jobs, procs, q, ws) =
                        [jobs EXCEPT ![k].state = HandlerState(ws)]
               ELSE HandlerRound(jobs, procs, q, ws) = jobs

\* execute_pipeline calls add_job in this step: for a background pipeline
\* whose children were forked, or for a foreground pipeline that stopped
AddJobCalled ==
    \/ pc = "bg_add" /\ pc' = "loop_top"
    \/ pc = "fg_wait" /\ pc' = "fg_restore" /\ status' = Stopped

\* the entries of the table that are not DONE
NonDoneJobs == {k \in 1..Len(jobs) : jobs[k].state # JOB_DONE}

\* C12: the job table never holds more than MAX_JOBS entries; add_job
\* refuses a new job only when MAX_JOBS jobs that are not DONE are tracked
\* already, and then the table and next_job_id are left as they were while
\* the children forked for the pipeline stay as they are.
C12_RefusedOnlyWhenFull ==
    [][/\ Len(jobs') <= MAX_JOBS
       /\ (AddJobCalled /\ Len(jobs') = Len(jobs))
            => /\ Cardinality(NonDoneJobs) = MAX_JOBS
               /\ jobs' = jobs
               /\ next_job_id' = next_job_id
               /\ \A q \in Group(pgid) : procs'[q].st = procs[q].st
    ]_vars

\* C13: every job execute_pipeline inserts, for a background launch or for
\* a foreground pipeline that stopped, has a positive pgid that is the pid of
\* the first child forked for that pipeline.
C13_JobPgidIsFirstChild ==
    [][(AddJobCalled /\ Len(jobs') = Len(jobs) + 1)
        => /\ jobs'[Len(jobs')].pgid > 0
           /\ jobs'[Len(jobs')].pgid = p - (Forks(pl) - 1)
    ]_vars

\* every character of s is alphanumeric or a space
AlnumSpace(s) == \A k \in 1..Len(s) : isalnum(s[k]) \/ s[k] = " "

\* the positions of s where a word starts, a word being a maximal run of
\* characters that are not spaces
WordStarts(s) ==
    {k \in 1..Len(s) : s[k] # " " /\ (k = 1 \/ s[k - 1] = " ")}

\* the last position of the word that starts at k
WordEnd(s, k) ==
    CHOOSE m \in k..Len(s) :
        /\ \A n \in k..m : s[n] # " "
        /\ (m = Len(s) \/ s[m + 1] = " ")

\* the whitespace-separated words of s, in order
Words(s) ==
    [n \in 1..Cardinality(WordStarts(s)) |->
        LET k == CHOOSE a \in WordStarts(s) :
                    Cardinality({b \in WordStarts(s) : b < a}) = n - 1
        IN SubSeq(s, k, WordEnd(s, k))]

Inner(s) == SubSeq(s, 2, Len(s) - 1)

\* s is "x" for an x that holds neither a double quote nor a $
DoubleQuoted(s) ==
    /\ Len(s) >= 2 /\ s[1] = "\"" /\ s[Len(s)] = "\""
    /\ \A k \in 2..(Len(s) - 1) : s[k] \notin {"\"", "$"}

\* C18 as stated: for every x that holds no double quote and no $ (spaces,
\* backslashes, single quotes and operator characters allowed), tokenize of
\* "x" is the one token x.
C18_DoubleQuotedIsOneToken ==
    (pc = "tokenized" /\ DoubleQuoted(line)) => toks = <<Inner(line)>>

\* C18 amended: for every x of at most RESULT_MAX characters that holds no
\* double quote, no $ and no backslash (spaces, single quotes and operator
\* characters allowed), tokenize of "x" is the one token x.
C18_DoubleQuotedNoBackslashIsOneToken ==
    (/\ pc = "tokenized" /\ DoubleQuoted(line)
     /\ Len(line) - 2 <= RESULT_MAX
     /\ \A k \in 2..(Len(line) - 1) : line[k] # "\\")
    => toks = <<Inner(line)>>

\* C18: the line "x" with a space, a single quote and an operator character
\* in x was made the one token x
C18_Witness ==
    /\ pc = "tokenized" /\ DoubleQuoted(line)
    /\ Inner(line) = <<" ", "'", "|">>
    /\ toks = <<Inner(line)>>

\* the line l is typed at the prompt in this step and the body of main's
\* loop is run for it
Typed(l) == pc = "prompt" /\ pc' = "loop_top" /\ line' = l

\* the words of a command after one alias expansion of its first word: the
\* alias value and the other words, split into words again
OnceExpanded(argv) ==
    IF Lookup(aliases, argv[1]) = {} THEN argv
    ELSE tokenize((CHOOSE v \in Lookup(aliases, argv[1]) : TRUE)
                  \o (IF Len(argv) > 1 THEN <<" ">> \o Join(argv, 2)
                      ELSE <<>>))

\* the commands of line l that have a word, each expanded once
RunOf(l) ==
    LET cs == SelectSeq(parse_tokens(tokenize(l)).cmds,
                        LAMBDA c : c.argv # <<>>)
    IN [k \in 1..Len(cs) |-> OnceExpanded(cs[k].argv)]

\* C14: alias expansion is applied once to each command and never to its own
\* result, and it ends for every alias table: the commands run for a typed
\* line are its commands with the first word replaced once; with the alias
\* a = "a b" the line `a c` runs a with the arguments b and c, and with the
\* aliases m = "n" and n = "m" the line `m x` runs n with the argument x.
C14_AliasExpandedOnce ==
    [][/\ \A l \in TextLines :
            (Typed(l) /\ l[1] # "!") => ran'.cmds = RunOf(l)
       /\ (Typed(L_a_c) /\ Lookup(aliases, <<"a">>) = {<<"a", " ", "b">>})
            => ran' = [where |-> "child",
                       cmds |-> <<<< <<"a">>, <<"b">>, <<"c">> >>>>]
       /\ (/\ Typed(L_m_x)
           /\ Lookup(aliases, <<"m">>) = {<<"n">>}
           /\ Lookup(aliases, <<"n">>) = {<<"m">>})
            => ran' = [where |-> "child", cmds |-> <<<< <<"n">>, <<"x">> >>>>]
    ]_vars

\* C14: with the self-referential alias a = "a b" in the table, the line
\* `a c` was typed and a was run with the arguments b and c
C14_Witness ==
    /\ pc = "loop_top" /\ line = L_a_c
    /\ Lookup(aliases, <<"a">>) = {<<"a", " ", "b">>}
    /\ ran = [where |-> "child", cmds |-> <<<< <<"a">>, <<"b">>, <<"c">> >>>>]

\* the aliases m = "n" and n = "m" are in the table and `m x` ran n
C14_MutualAliasesRun ==
    /\ pc = "loop_top" /\ line = L_m_x
    /\ Lookup(aliases, <<"m">>) = {<<"n">>}
    /\ Lookup(aliases, <<"n">>) = {<<"m">>}
    /\ ran.cmds = <<<< <<"n">>, <<"x">> >>>>

\* C15: after the line alias hi='echo hey' has been read, the alias table
\* maps hi to "echo hey", and the line hi there read right after it runs
\* echo with the arguments hey and there.
C15_QuotedAliasRunsEcho ==
    [][/\ Typed(L_alias_hi_quoted) =>
              Lookup(aliases', <<"h", "i">>) =
                  {<<"e", "c", "h", "o", " ", "h", "e", "y">>}
       /\ (/\ Typed(L_hi_there)
           /\ history # <<>>
           /\ history[Len(history)] = L_alias_hi_quoted) =>
              ran'.cmds = << <<<<"e", "c", "h", "o">>, <<"h", "e", "y">>,
                               <<"t", "h", "e", "r", "e">>>> >>]_vars

\* C16: after the line set X=42 has been read, the shell-variable table maps
\* X to 42, and the line echo $X read right after it is tokenized into echo
\* and 42.
C16_SetWithEqualsDefinesX ==
    [][/\ Typed(L_set_X_eq) =>
              Lookup(shell_vars', <<"X">>) = {<<"4", "2">>}
       /\ (/\ Typed(L_echo_X)
           /\ history # <<>>
           /\ history[Len(history)] = L_set_X_eq) =>
              toks' = <<<<"e", "c", "h", "o">>, <<"4", "2">>>>]_vars

\* the lines made of `!` and a run of digits
BangLines ==
    {l \in TextLines :
        Len(l) >= 2 /\ l[1] = "!" /\ \A k \in 2..Len(l) : isdigit(l[k])}

\* the integer a run of digits denotes, for a run of at most nine digits
RECURSIVE Decimal(_)
Decimal(s) ==
    IF s = <<>> THEN 0
    ELSE 10 * Decimal(SubSeq(s, 1, Len(s) - 1))
         + (CHOOSE n \in 0..9 :
                s[Len(s)] = <<"0", "1", "2", "3", "4", "5", "6", "7", "8",
                              "9">>[n + 1])

\* the digits of a bang line without its leading zeros
RECURSIVE Significant(_)
Significant(s) ==
    IF s # <<>> /\ s[1] = "0" THEN Significant(Tail(s)) ELSE s

\* the integer k of the bang line l is between 1 and the history length
KInRange(l) ==
    LET s == Significant(Tail(l))
    IN Len(s) <= 9 /\ Decimal(s) >= 1 /\ Decimal(s) <= Len(history)

\* what the body of the loop leaves behind
Outcome(r) ==
    <<r.history, r.toks, r.x.ran, r.x.aliases, r.x.shell_vars, r.x.cwd,
      r.x.jobs, r.x.next_job_id, r.x.rc>>

\* C19: a line `!k` with 1 <= k <= history length is recorded and executed
\* as history entry k typed at the prompt would be; with k out of range
\* nothing is executed and the history, the job table, the alias table and
\* the variable table are unchanged.
C19_BangLineReplaysOrIsDiscarded ==
    [][\A l \in BangLines :
          Typed(l) =>
              IF KInRange(l)
              THEN \A r \in {main_body(history[Decimal(Significant(Tail(l)))])} :
                      <<history', toks', ran', aliases', shell_vars', cwd',
                        jobs', next_job_id', last_status'>> = Outcome(r)
              ELSE /\ ran' = NoRun
                   /\ history' = history /\ jobs' = jobs
                   /\ aliases' = aliases /\ shell_vars' = shell_vars]_vars

\* the commands of the pipeline the tokens ts make, each after its alias
\* expansion
CommandsOf(ts) ==
    [k \in 1..Len(parse_tokens(ts).cmds) |->
        ExpandCommand(parse_tokens(ts).cmds[k])]

\* the pipeline the tokens ts make holds a built-in
HasBuiltin(ts) ==
    \E k \in 1..Len(CommandsOf(ts)) :
        /\ CommandsOf(ts)[k].argv # <<>>
        /\ is_builtin(CommandsOf(ts)[k].argv[1])

\* one command, foreground, no input and no output redirection
Plain(ts) ==
    /\ Len(CommandsOf(ts)) = 1
    /\ ~parse_tokens(ts).background
    /\ CommandsOf(ts)[1].infile = {} /\ CommandsOf(ts)[1].outfile = {}

\* C11: a built-in runs in the shell process exactly when the pipeline has
\* one command, is foreground and has no redirection, and then the executor
\* returns the built-in's status; a piped, redirected or backgrounded
\* built-in runs in a child and leaves the shell's alias table, variable
\* table, working directory and job table as they were (the executor adds
\* the job of a background pipeline, nothing else).
C11_BuiltinInShellIffPlain ==
    [][\A l \in TextLines :
          (Typed(l) /\ toks' # <<>>) =>
              /\ ran'.where = "shell" <=> (HasBuiltin(toks') /\ Plain(toks'))
              /\ ran'.where = "shell" =>
                    last_status' = run_builtin(CommandsOf(toks')[1].argv).rc
              /\ (HasBuiltin(toks') /\ ~Plain(toks')) =>
                    /\ ran'.where = "child"
                    /\ aliases' = aliases /\ shell_vars' = shell_vars
                    /\ cwd' = cwd
                    /\ IF parse_tokens(toks').background
                       THEN /\ Len(jobs') = Len(jobs) + 1
                            /\ SubSeq(jobs', 1, Len(jobs)) = jobs
                       ELSE jobs' = jobs]_vars

\* set X 42 has run in the shell and defined X; set Y 1 > f has then run in
\* a child and Y is not defined in the shell
C11_Witness ==
    /\ pc = "loop_top" /\ line = L_set_redirected /\ ran.where = "child"
    /\ Lookup(shell_vars, <<"X">>) = {<<"4", "2">>}
    /\ Lookup(shell_vars, <<"Y">>) = {}

\* cd d & has run in a child: the shell is where it was and has a job more
C11_BackgroundCdLeavesCwd ==
    /\ pc = "loop_top" /\ line = L_cd_bg /\ ran.where = "child"
    /\ cwd = <<"/">> /\ jobs # <<>>

(***************************************************************************)
(* The program with the scheduling the system gives it: a pending SIGCHLD  *)
(* is delivered, and the main program goes on when it stands at the top of *)
(* its loop.                                                               *)
(***************************************************************************)
SpecLive ==
    Init /\ [][Next]_vars /\ WF_vars(LoopTop) /\ WF_vars(sigchld_handler)

\* the ids the jobs of a window can get
JobIds == 1..(MaxPid + MaxChildless)

\* the table holds a job with this id
Tracked(id) == \E k \in 1..Len(jobs) : jobs[k].id = id

\* the table holds a job with this id, made for a group of children, and no
\* process of the group is left that has not terminated
Finished(id) ==
    \E k \in 1..Len(jobs) :
        /\ jobs[k].id = id
        /\ jobs[k].pgid > 0
        /\ \A q \in Group(jobs[k].pgid) : procs[q].st = "zombie"

\* C21: if the interactive loop keeps iterating, every job of the table
\* whose processes have all terminated is eventually removed from the table
\* (marked DONE by the handler, removed at the top of the loop).  Jobs that
\* were inserted with no group (pgid 0) are left aside.
C21_FinishedJobRemoved ==
    ([]<>(pc = "loop_top")) =>
        \A id \in JobIds : (Alive /\ Finished(id)) ~> ~Tracked(id)

(***************************************************************************)
(* remove_done_jobs statement by statement, with sigchld_handler running   *)
(* between any two steps.  SIGCHLD is not blocked, so the handler also     *)
(* runs in the middle of the structure assignment jobs[w] = jobs[i]: the   *)
(* compiled code (gcc, -O0 and -O2) stores id, pgid and cmdline first and  *)
(* then loads and stores state; the other order is followed as well.       *)
(* During the compaction jobs is the array up to the old jobs_count, with  *)
(* the entries that were already moved or freed still in their places;     *)
(* i and w are the function's locals (counted from 1).                     *)
(* The table at the start: an entry [1] that is DONE and whose group is    *)
(* gone (or no such entry), then the jobs [2] and [3] of the children 1    *)
(* and 2, each RUNNING, STOPPED or DONE.                                   *)
(***************************************************************************)
\* the group of the job with this id in the tables of InitCompact
PgidFor(id) == IF id = 1 THEN MaxPid + 1 ELSE id - 1

\* the command line of those jobs
CompactLine ==
    [type |-> "pipeline", n |-> 1, background |-> TRUE, skip |-> FALSE,
     id |-> 0]

InitCompact ==
    /\ pc = "rdj_loop"
    /\ term = [cause |-> "none", saved |-> FALSE, code |-> 0]
    /\ \E first \in {1, 2} :
       \E st \in [2..3 -> {JOB_RUNNING, JOB_STOPPED, JOB_DONE}] :
         /\ jobs = [k \in 1..(4 - first) |->
                      [id |-> k + first - 1, pgid |-> PgidFor(k + first - 1),
                       cmdline |-> CompactLine,
                       state |-> IF k + first - 1 = 1 THEN JOB_DONE
                                 ELSE st[k + first - 1]]]
         /\ procs = [q \in Pids |->
                      IF st[q + 1] = JOB_DONE THEN Reaped
                      ELSE [NoProc EXCEPT
                              !.pgid = q,
                              !.st = IF st[q + 1] = JOB_RUNNING
                                     THEN "run" ELSE "stopped"]]
    /\ next_job_id = 4
    /\ fg_pgid = 0
    /\ tty = shell_pgid
    /\ npids = MaxPid
    /\ pl = NoLine
    /\ i = 1
    /\ pgid = 0
    /\ p = 0
    /\ w = 1
    /\ status = NoStatus
    /\ last_status = 0
    /\ j = 0
    /\ sigchld = FALSE
    /\ disp = [s \in Signals |-> "handler"]
    /\ sysv = FALSE
    /\ bgbase = 0
    /\ TextInit
    /\ FilesInit
    /\ cur = NoCmd
    /\ ConfigInit

\* for (..; i<jobs_count; ..) { if (jobs[i].state == JOB_DONE) {
\*     free(jobs[i].cmdline); continue; }  if (w != i) .. else w++;
RdjTest ==
    /\ pc = "rdj_loop"
    /\ IF i > Len(jobs) THEN pc' = "rdj_count" /\ UNCHANGED <<i, w>>
       ELSE IF jobs[i].state = JOB_DONE
       THEN pc' = "rdj_loop" /\ i' = i + 1 /\ w' = w
       ELSE IF w # i THEN pc' = "rdj_copy" /\ UNCHANGED <<i, w>>
       ELSE pc' = "rdj_loop" /\ i' = i + 1 /\ w' = w + 1
    /\ UNCHANGED <<term, Table, fg_pgid, tty, last_status>>
    /\ UNCHANGED <<pl, pgid, p, status, j, Kernel, Build, Text, Files, cur, Config>>

\* jobs[w] = jobs[i];  the part of the assignment that is stored first
RdjCopyFirst ==
    /\ pc = "rdj_copy"
    /\ \/ /\ jobs' = [jobs EXCEPT ![w].id = jobs[i].id,
                                  ![w].pgid = jobs[i].pgid,
                                  ![w].cmdline = jobs[i].cmdline]
          /\ pc' = "rdj_state_left"
       \/ /\ jobs' = [jobs EXCEPT ![w].state = jobs[i].state]
          /\ pc' = "rdj_head_left"
    /\ UNCHANGED <<term, next_job_id, fg_pgid, tty, last_status>>
    /\ UNCHANGED <<Locals, Kernel, Build, Text, Files, cur, Config>>

\* jobs[w] = jobs[i];  the rest of the assignment; w++;
RdjCopyRest ==
    /\ pc \in {"rdj_state_left", "rdj_head_left"}
    /\ jobs' = IF pc = "rdj_state_left"
               THEN [jobs EXCEPT ![w].state = jobs[i].state]
               ELSE [jobs EXCEPT ![w].id = jobs[i].id,
                                 ![w].pgid = jobs[i].pgid,
                                 ![w].cmdline = jobs[i].cmdline]
    /\ i' = i + 1 /\ w' = w + 1
    /\ pc' = "rdj_loop"
    /\ UNCHANGED <<term, next_job_id, fg_pgid, tty, last_status>>
    /\ UNCHANGED <<pl, pgid, p, status, j, Kernel, Build, Text, Files, cur, Config>>

\* jobs_count = w;
RdjCount ==
    /\ pc = "rdj_count"
    /\ jobs' = SubSeq(jobs, 1, w - 1)
    /\ pc' = "rdj_done"
    /\ UNCHANGED <<term, next_job_id, fg_pgid, tty, last_status>>
    /\ UNCHANGED <<Locals, Kernel, Build, Text, Files, cur, Config>>

NextCompact ==
    \/ RdjTest \/ RdjCopyFirst \/ RdjCopyRest \/ RdjCount
    \/ sigchld_handler \/ ChildExit

SpecCompact == InitCompact /\ [][NextCompact]_vars

\* the handler has collected the exit of the leader of this job's group
ReapedJob(k) ==
    jobs[k].pgid \in Pids /\ procs[jobs[k].pgid].st = "reaped"

\* C22: when the compaction has finished, a job for which the handler wrote
\* DONE, before or during the compaction, is absent from the table or
\* present with state DONE, and every other job is present exactly once,
\* with its id, pgid and command line, in the original order.
C22_DoneNotLostByCompaction ==
    pc = "rdj_done" =>
        /\ \A k \in 1..Len(jobs) : ReapedJob(k) => jobs[k].state = JOB_DONE
        /\ \A k \in 1..Len(jobs) :
             /\ jobs[k].pgid = PgidFor(jobs[k].id)
             /\ jobs[k].cmdline = CompactLine
             /\ \A m \in 1..(k - 1) : jobs[m].id < jobs[k].id
        /\ \A q \in Pids :
             procs[q].st # "reaped" =>
                 \E k \in 1..Len(jobs) : jobs[k].id = q + 1

\* the main program is inside builtin_fg or builtin_bg, after the lookup
InFgBg ==
    pc \in {"fg_mark", "fg_cont", "fg_waitpid", "fg_done", "bg_mark",
            "bg_cont"}

\* C23: a job that is DONE while fg ID or bg ID operates on the table stays
\* DONE through every step up to the return of the built-in: fg and bg
\* never turn a DONE job back into RUNNING.
C23_DoneIsTerminalInFgBg ==
    [][(InFgBg /\ Alive') =>
          \A k \in 1..Len(jobs) :
              jobs[k].state = JOB_DONE =>
                  k <= Len(jobs') /\ jobs'[k].state = JOB_DONE]_vars

\* fork() of the main program returns the pid of a new child
ForksChild == pc = "exec_fork" /\ npids' = npids + 1

\* the pid of the first child forked for the pipeline under execution
FirstChild == npids' - (i - (IF pl.skip THEN 2 ELSE 1))

\* C24: the children of a pipeline are forked from left to right, and every
\* child is a member of the process group of the pipeline's first child from
\* the two setpgid calls on (the parent's and its own) until it executes its
\* command, whatever the other children and the SIGCHLD handler do in
\* between.
C24_ChildrenJoinLeadersGroup ==
    [][/\ ForksChild =>
            /\ p' = npids' /\ p' > p
            /\ procs'[p'].pgid = FirstChild
       /\ \A q \in Pids :
            (procs[q].st = "forked" /\ procs'[q].st # "free") =>
                procs'[q].pgid = procs[q].pgid]_vars

(***************************************************************************)
(* execute_pipeline and its children as far as file descriptors go: the    *)
(* pipe() loop, the fork loop, what each child does with its copy of the   *)
(* table before it executes its command, the parent's close loop and its   *)
(* wait.  pl is a pipeline as parse_tokens hands it over, of up to         *)
(* MaxPipeCmds external commands; i is the loop index (counted from 1).    *)
(***************************************************************************)
FdCmds ==
    [argv : {<<>>, <<<<"a">>>>}, infile : {{}, {<<"f">>}},
     outfile : {{}, {<<"g">>}}, append : BOOLEAN]

\* the pipelines parse_tokens returns: a last command is never empty
FdPipelines ==
    {pp \in [cmds : UNION {[1..n -> FdCmds] : n \in 0..MaxPipeCmds},
             background : BOOLEAN] :
        /\ \A k \in 1..Len(pp.cmds) :
              pp.cmds[k].append => pp.cmds[k].outfile # {}
        /\ Len(pp.cmds) > 0 =>
              LET c == pp.cmds[Len(pp.cmds)]
              IN c.argv # <<>> \/ c.infile # {} \/ c.outfile # {}}

InitFd ==
    /\ pc = "fd_pipe"
    /\ term = [cause |-> "none", saved |-> FALSE, code |-> 0]
    /\ jobs = <<>>
    /\ next_job_id = 1
    /\ fg_pgid = 0
    /\ tty = shell_pgid
    /\ procs = [q \in Pids |-> NoProc]
    /\ npids = 0
    /\ pl \in FdPipelines
    /\ i = 1
    /\ pgid = 0
    /\ p = 0
    /\ w = 0
    /\ status = NoStatus
    /\ last_status = 0
    /\ j = 0
    /\ sigchld = FALSE
    /\ disp = [s \in Signals |-> "handler"]
    /\ sysv = FALSE
    /\ bgbase = 0
    /\ TextInit
    /\ fds = ShellFds
    /\ pipefds = <<>>
    /\ cfds = [c \in 1..Len(pl.cmds) |-> NoChild]
    /\ cur = NoCmd
    /\ ConfigInit

FdFrame ==
    UNCHANGED <<term, Table, fg_pgid, tty, pl, pgid, p, w, status, j, Kernel,
                Build, Text, cur, Config>>

\* return rc; from execute_pipeline
FdReturn(rc) ==
    /\ last_status' = rc
    /\ pc' = "fd_returned"

\* for (int i=0;i<n-1;i++) { if (pipe(pipefds + i*2) < 0) ..  }  succeeding
FdPipe ==
    /\ pc = "fd_pipe"
    /\ IF i > Len(pl.cmds) - 1
       THEN pc' = "fd_fork" /\ i' = 1 /\ UNCHANGED <<fds, pipefds>>
       ELSE /\ fds' = pipe(fds, i).fds
            /\ pipefds' = pipefds \o <<pipe(fds, i).r, pipe(fds, i).w>>
            /\ i' = i + 1
            /\ pc' = "fd_pipe"
    /\ UNCHANGED <<last_status, cfds>>
    /\ FdFrame

\* if (pipe(pipefds + i*2) < 0) { perror("pipe"); return 1; }
FdPipeFails ==
    /\ pc = "fd_pipe"
    /\ i <= Len(pl.cmds) - 1
    /\ FdReturn(1)
    /\ UNCHANGED <<i, Files, cur, Config>>
    /\ FdFrame

\* for (int i=0;i<n;i++) { if (c->argc == 0) continue;  p = fork();
\* the child starts with a copy of the shell's table
FdFork ==
    /\ pc = "fd_fork"
    /\ IF i > Len(pl.cmds)
       THEN pc' = "fd_close" /\ UNCHANGED <<i, cfds>>
       ELSE /\ cfds' = IF pl.cmds[i].argv = <<>> THEN cfds
                       ELSE [cfds EXCEPT ![i] = [st |-> "forked", fd |-> fds]]
            /\ i' = i + 1
            /\ pc' = "fd_fork"
    /\ UNCHANGED <<last_status, fds, pipefds>>
    /\ FdFrame

\* if (p < 0) { perror("fork"); return 1; }
FdForkFails ==
    /\ pc = "fd_fork"
    /\ i <= Len(pl.cmds) /\ pl.cmds[i].argv # <<>>
    /\ FdReturn(1)
    /\ UNCHANGED <<i, Files, cur, Config>>
    /\ FdFrame

\* child: dup2 .. close .. redirect_io(..); execvp(..)
\* or redirect_io's open() fails: perror(..); exit(1);
FdChildExec ==
    /\ \E c \in 1..Len(cfds) :
         /\ cfds[c].st = "forked"
         /\ \/ cfds' = [cfds EXCEPT ![c] =
                   [st |-> "exec",
                    fd |-> ChildFds(cfds[c].fd, c, Len(pl.cmds), pipefds,
                                    pl.cmds[c])]]
            \/ /\ pl.cmds[c].infile # {} \/ pl.cmds[c].outfile # {}
               /\ cfds' = [cfds EXCEPT ![c] = [st |-> "exited", fd |-> NoFds]]
    /\ UNCHANGED <<pc, last_status, i, fds, pipefds>>
    /\ FdFrame

\* the command of a child ends: the process is gone and so is its table
FdChildExit ==
    /\ \E c \in 1..Len(cfds) :
         /\ cfds[c].st = "exec"
         /\ cfds' = [cfds EXCEPT ![c] = [st |-> "exited", fd |-> NoFds]]
    /\ UNCHANGED <<pc, last_status, i, fds, pipefds>>
    /\ FdFrame

\* for (int j=0;j<2*(n-1);j++) if (j>=0) close(pipefds[j]);
\* if (pl->background) { add_job(..); } else { .. waitpid ..
FdCloseAll ==
    /\ pc = "fd_close"
    /\ fds' = CloseAll(fds, pipefds, 1)
    /\ IF pl.background
       THEN FdReturn(fg_return)
       ELSE pc' = "fd_wait" /\ UNCHANGED last_status
    /\ UNCHANGED <<i, pipefds, cfds>>
    /\ FdFrame

\* the wait loop ends when no child of the pipeline is left; return 0
FdWait ==
    /\ pc = "fd_wait"
    /\ \A c \in 1..Len(cfds) : cfds[c].st \in {"none", "exited"}
    /\ FdReturn(fg_return)
    /\ UNCHANGED <<i, Files, cur, Config>>
    /\ FdFrame

NextFd ==
    \/ FdPipe \/ FdPipeFails \/ FdFork \/ FdForkFails \/ FdChildExec
    \/ FdChildExit \/ FdCloseAll \/ FdWait

SpecFd == InitFd /\ [][NextFd]_vars

\* the numbers at which table t holds an end of a pipe
PipeFdsOf(t) == {n \in FdNums : t[n].kind = "pipe"}

\* C25: on every return path of execute_pipeline, a failing pipe() and a
\* failing fork() included, the shell holds no open descriptor of the
\* pipeline's pipes, and on the success path it holds none when it waits.
C25_NoPipeFdLeftInShell ==
    pc \in {"fd_returned", "fd_wait"} => PipeFdsOf(fds) = {}

\* what child c of the pipeline should have as stdin and as stdout
StdinOf(c) ==
    IF pl.cmds[c].infile # {}
    THEN FileFor(CHOOSE f \in pl.cmds[c].infile : TRUE, "r")
    ELSE IF c > 1 THEN PipeEnd(c - 1, "r") ELSE Tty

StdoutOf(c) ==
    IF pl.cmds[c].outfile # {}
    THEN FileFor(CHOOSE f \in pl.cmds[c].outfile : TRUE,
                 IF pl.cmds[c].append THEN "a" ELSE "w")
    ELSE IF c < Len(pl.cmds) THEN PipeEnd(c, "w") ELSE Tty

\* the table of a child at the moment it executes its command is as it
\* should be: stdin, stdout, and no other descriptor of a pipe
ChildTableRight(c) ==
    /\ cfds[c].fd[0] = StdinOf(c)
    /\ cfds[c].fd[1] = StdoutOf(c)
    /\ PipeFdsOf(cfds[c].fd) \subseteq {0, 1}

\* some process, a child or the shell, holds the write end of pipe k
WriteEndHeld(k) ==
    \/ \E n \in FdNums : fds[n] = PipeEnd(k, "w")
    \/ \E c \in 1..Len(cfds) : \E n \in FdNums : cfds[c].fd[n] = PipeEnd(k, "w")

\* pipe k has a reader, every process is past the place where it closes the
\* pipe descriptors it does not use (the shell is waiting or has returned,
\* no child is between fork and exec), and no stage that writes to pipe k
\* is running
WritersGone(k) ==
    /\ cfds[k + 1].st = "exec" /\ cfds[k + 1].fd[0] = PipeEnd(k, "r")
    /\ pc \in {"fd_wait", "fd_returned"}
    /\ \A c \in 1..Len(cfds) : cfds[c].st # "forked"
    /\ \A c \in 1..Len(cfds) :
          cfds[c].st = "exec" => cfds[c].fd[1] # PipeEnd(k, "w")

\* C26: when child c of the pipeline executes its command, its stdin is
\* the infile, else the read end of the pipe before it, else the inherited
\* stdin; its stdout is the outfile, else the write end of the pipe after
\* it, else the inherited stdout; it holds no other descriptor of a pipe;
\* and once every stage that writes to a pipe has exited, nobody holds the
\* pipe's write end (a reader sees end-of-file).
C26_ChildDescriptorsAndEof ==
    /\ \A c \in 1..Len(cfds) : cfds[c].st = "exec" => ChildTableRight(c)
    /\ \A k \in 1..(Len(pl.cmds) - 1) : WritersGone(k) => ~WriteEndHeld(k)

\* the part of C26 that is about the children alone, and the end-of-file
\* when the shell has come to its close loop
C26_ChildDescriptors ==
    /\ \A c \in 1..Len(cfds) : cfds[c].st = "exec" => ChildTableRight(c)
    /\ \A k \in 1..(Len(pl.cmds) - 1) :
          (WritersGone(k) /\ (pc = "fd_wait" \/ last_status = fg_return))
              => ~WriteEndHeld(k)

\* C27: when fg ID returns, the state recorded for the job agrees with what
\* happened to its group: DONE if no process of the group is left, STOPPED
\* if the group is stopped, whichever of the SIGCHLD handler and fg's own
\* waitpid collected the status.  (Jobs inserted with no group are left
\* aside.)
C27_FgLeavesJobStateRight ==
    [][(Returns("fg_done") /\ jobs[j].pgid > 0) =>
          /\ Group(jobs[j].pgid) = {} => jobs'[j].state = JOB_DONE
          /\ (/\ Group(jobs[j].pgid) # {}
              /\ \A q \in Group(jobs[j].pgid) : procs[q].st = "stopped")
                => jobs'[j].state = JOB_STOPPED]_vars

\* the job at index k of the table after the step is DONE and was not
\* before
BecomesDone(k) ==
    /\ jobs'[k].state = JOB_DONE
    /\ \A m \in 1..Len(jobs) :
          jobs[m].id = jobs'[k].id => jobs[m].state # JOB_DONE

\* C28: a job is marked DONE only when every process of its process group
\* has terminated: after the step that writes DONE no process of the group
\* is left that runs or is stopped.
C28_DoneOnlyWhenGroupTerminated ==
    [][\A k \in 1..Len(jobs') :
          BecomesDone(k) =>
              \A q \in 1..npids' :
                  procs'[q].pgid = jobs'[k].pgid =>
                      procs'[q].st \notin {"forked", "run", "stopped"}]_vars

(***************************************************************************)
(* parse_tokens on its own: the token list is any list of at most          *)
(* MaxToks tokens of ParseToks, or one of the long lists, whose numbers of *)
(* commands lie around CMDS_MAX and whose numbers of words lie around      *)
(* MAX_ARGS.                                                               *)
(***************************************************************************)
ParseToks == {<<"a">>, <<"|">>, <<"<">>, <<">">>, <<">", ">">>, <<"&">>}

\* the tokens of "a | a | .. | a", k commands
PipedWords(k) == [n \in 1..(2 * k - 1) |-> IF n % 2 = 1 THEN <<"a">> ELSE <<"|">>]

\* the tokens of "| | .. |", k of them
BarePipes(k) == [n \in 1..k |-> <<"|">>]

\* the tokens of "a a .. a", k words
ManyWords(k) == [n \in 1..k |-> <<"a">>]

LongTokLists ==
    {PipedWords(k) : k \in (CMDS_MAX - 1)..(CMDS_MAX + 1)}
    \cup {BarePipes(k) : k \in (CMDS_MAX - 1)..(CMDS_MAX + 1)}
    \cup {ManyWords(k) : k \in (MAX_ARGS - 2)..(MAX_ARGS + 1)}

TokLists == UNION {[1..n -> ParseToks] : n \in 1..MaxToks} \cup LongTokLists

\* what the caller finds in the pipeline parse_tokens returns.
\* pipe.cmds[pipe.ncmds++] = cur has no test of ncmds against the CMDS_MAX
\* entries of cmds: the stores beyond the array land on pipe.ncmds and
\* pipe.background and further up the stack, and what is found there
\* afterwards is not defined; cmds lists every store that was made
ParsedOutcomes(parsed) ==
    IF Len(parsed.cmds) <= CMDS_MAX THEN {parsed}
    ELSE {[parsed EXCEPT !.background = b] : b \in BOOLEAN}

InitParse ==
    /\ pc = "parse"
    /\ term = [cause |-> "none", saved |-> FALSE, code |-> 0]
    /\ jobs = <<>>
    /\ next_job_id = 1
    /\ fg_pgid = 0
    /\ tty = shell_pgid
    /\ procs = [q \in Pids |-> NoProc]
    /\ npids = 0
    /\ pl = [cmds |-> <<>>, background |-> FALSE]
    /\ i = 1
    /\ pgid = 0
    /\ p = 0
    /\ w = 0
    /\ status = NoStatus
    /\ last_status = 0
    /\ j = 0
    /\ sigchld = FALSE
    /\ disp = [s \in Signals |-> "handler"]
    /\ sysv = FALSE
    /\ bgbase = 0
    /\ line = <<>>
    /\ toks \in TokLists
    /\ aliases = <<>>
    /\ shell_vars = <<>>
    /\ history = <<>>
    /\ cwd = <<"/">>
    /\ ran = NoRun
    /\ scan = 1
    /\ FilesInit
    /\ cur = NoCmd
    /\ ConfigInit

\* pipeline_t pl = parse_tokens(toks, ntoks);  one round of its loop per
\* step, then its end
Parse ==
    /\ pc = "parse"
    /\ IF i > Len(toks)
       THEN /\ pl' \in ParsedOutcomes(ParseEnd(cur, pl))
            /\ pc' = "parsed"
            /\ UNCHANGED <<i, cur>>
       ELSE /\ pl' = ParseRound(toks, i, cur, pl).pipe
            /\ cur' = ParseRound(toks, i, cur, pl).cur
            /\ i' = ParseRound(toks, i, cur, pl).k
            /\ pc' = "parse"
    /\ UNCHANGED <<term, Table, fg_pgid, tty, last_status>>
    /\ UNCHANGED <<pgid, p, w, status, j, Kernel, Build, Text, Files, Config>>

NextParse == Parse

SpecParse == InitParse /\ [][NextParse]_vars

\* command c has no word and no redirection
EmptyCmd(c) == c.argv = <<>> /\ c.infile = {} /\ c.outfile = {}

\* C29: the pipeline parse_tokens makes of a non-empty token list holds at
\* least one command and no empty command (a `|` with nothing before it,
\* two adjacent `|` and a lone `&` add none).
C29_NoEmptyCommand ==
    pc = "parsed" =>
        /\ Len(pl.cmds) >= 1
        /\ \A k \in 1..Len(pl.cmds) : ~EmptyCmd(pl.cmds[k])

\* C30: parse_tokens stores at most CMDS_MAX commands in the pipeline and
\* at most MAX_ARGS - 1 words in a command.
C30_ParseStaysWithinStorage ==
    pc = "parsed" =>
        /\ Len(pl.cmds) <= CMDS_MAX
        /\ \A k \in 1..Len(pl.cmds) : Len(pl.cmds[k].argv) <= MAX_ARGS - 1

\* s is 'x' for an x that holds no single quote
SingleQuoted(s) ==
    /\ Len(s) >= 2 /\ s[1] = "'" /\ s[Len(s)] = "'"
    /\ \A k \in 2..(Len(s) - 1) : s[k] # "'"

\* C31: for every x that holds no single quote, tokenize of 'x' is the one
\* token x: backslashes are kept and no $NAME in it is replaced.
C31_SingleQuotedIsLiteral ==
    (pc = "tokenized" /\ SingleQuoted(line)) => toks = <<Inner(line)>>

\* the part of C31 the code keeps: when x holds no $ either, tokenize of
\* 'x' is the one token x, backslashes and double quotes included
C31_SingleQuotedWithoutDollar ==
    (/\ pc = "tokenized" /\ SingleQuoted(line)
     /\ \A k \in 1..Len(line) : line[k] # "$")
    => toks = <<Inner(line)>>

(***************************************************************************)
(* tokenize followed by parse_tokens, as main runs them on a line: the     *)
(* lines of TokLines, one round of either loop per step.                   *)
(***************************************************************************)
\* main: if (ntoks == 0) { .. continue; }
\*       pipeline_t pl = parse_tokens(toks, ntoks);  up to its loop
AfterTokenize ==
    /\ pc = "tokenized"
    /\ IF toks = <<>>
       THEN /\ pc' = "no_tokens"
            /\ UNCHANGED <<pl, i, cur>>
       ELSE /\ pc' = "parse"
            /\ pl' = [cmds |-> <<>>, background |-> FALSE]
            /\ i' = 1
            /\ cur' = NoCmd
    /\ UNCHANGED <<term, Table, fg_pgid, tty, last_status>>
    /\ UNCHANGED <<pgid, p, w, status, j, Kernel, Build, Text, Files, Config>>

NextLex == Tokenize \/ AfterTokenize \/ Parse

SpecLex == InitTok /\ [][NextLex]_vars

\* the command whose words are argv, without redirection
WordsCmd(argv) == [NoCmd EXCEPT !.argv = argv]

\* the ways to write the operator character | so that it is not an operator
HiddenPipe == {<<"\"", "|", "\"">>, <<"'", "|", "'">>, <<"\\", "|">>}

\* C32: | acts as an operator only when it is unquoted.  The line a q, q
\* being | in double quotes, in single quotes or after a backslash, is
\* parsed as the one command a with the argument |; and in the line |x, x
\* alphanumeric, the unquoted | that starts the token is a token of its
\* own, so that the tokens are | and x.
C32_OperatorsOnlyUnquoted ==
    pc = "parsed" =>
        /\ (\E q \in HiddenPipe : line = <<"a", " ">> \o q)
            => pl = [cmds |-> <<WordsCmd(<<(<<"a">>), (<<"|">>)>>)>>,
                     background |-> FALSE]
        /\ (/\ Len(line) >= 2 /\ line[1] = "|"
            /\ \A k \in 2..Len(line) : isalnum(line[k]))
            => toks = <<(<<"|">>), Tail(line)>>

\* the number of characters of the name [A-Za-z_][A-Za-z0-9_]* that starts
\* at s[k], 0 if none starts there
NameLen(s, k) ==
    IF k > Len(s) \/ ~(s[k] \in Letters \/ s[k] = "_") THEN 0
    ELSE VarLen(s, k, 0)

\* the word s with each $NAME replaced by the value of NAME and every
\* other $ kept, from position k on
RECURSIVE Replaced(_, _)
Replaced(s, k) ==
    IF k > Len(s) THEN <<>>
    ELSE IF s[k] = "$" /\ NameLen(s, k + 1) > 0
    THEN VarValue(SubSeq(s, k + 1, k + NameLen(s, k + 1)))
         \o Replaced(s, k + 1 + NameLen(s, k + 1))
    ELSE <<s[k]>> \o Replaced(s, k + 1)

\* s is one unquoted word without a backslash
PlainWord(s) ==
    /\ s # <<>>
    /\ \A k \in 1..Len(s) : s[k] \notin {" ", "\"", "'", "\\"}

\* C33: in a word, each $ followed by a name [A-Za-z_][A-Za-z0-9_]* is
\* replaced by the shell variable's value, else by the environment's
\* value, else by nothing, and a $ not followed by such a name stays in the
\* token as a literal $.
C33_DollarNameReplacedElseKept ==
    (pc = "tokenized" /\ PlainWord(line)) => toks = <<Replaced(line, 1)>>

\* the part of C33 the code keeps: a word in which every $ is followed by
\* a letter has each $NAME replaced
C33_DollarNameReplaced ==
    (/\ pc = "tokenized" /\ PlainWord(line)
     /\ \A k \in 1..Len(line) : line[k] = "$" => NameLen(line, k + 1) > 0)
    => toks = <<Replaced(line, 1)>>

(***************************************************************************)
(* The alias expansion at the head of execute_pipeline on its own: a       *)
(* pipeline of one command whose words are the tokens of ArgLists, under   *)
(* the alias tables of AliasTables.                                        *)
(***************************************************************************)
\* the texts of the words: a, b, x y (typed "x y"), ' (typed "'"),
\* \b (typed \\b) and the empty word (typed "")
ArgWords ==
    {<<"a">>, <<"b">>, <<"x", " ", "y">>, <<"'">>, <<"\\", "b">>, <<>>}

ArgLists == UNION {[1..n -> ArgWords] : n \in 1..MaxArgs}

\* alias a=b, alias a='b b', and alias x=b
AliasTables ==
    {<<>>,
     <<[name |-> <<"a">>, value |-> <<"b">>]>>,
     <<[name |-> <<"a">>, value |-> <<"b", " ", "b">>]>>,
     <<[name |-> <<"x">>, value |-> <<"b">>]>>}

InitExpand ==
    /\ pc = "expand"
    /\ term = [cause |-> "none", saved |-> FALSE, code |-> 0]
    /\ jobs = <<>>
    /\ next_job_id = 1
    /\ fg_pgid = 0
    /\ tty = shell_pgid
    /\ procs = [q \in Pids |-> NoProc]
    /\ npids = 0
    /\ toks \in ArgLists
    /\ pl = [cmds |-> <<[NoCmd EXCEPT !.argv = toks]>>, background |-> FALSE]
    /\ i = 0
    /\ pgid = 0
    /\ p = 0
    /\ w = 0
    /\ status = NoStatus
    /\ last_status = 0
    /\ j = 0
    /\ sigchld = FALSE
    /\ disp = [s \in Signals |-> "handler"]
    /\ sysv = FALSE
    /\ bgbase = 0
    /\ line = <<>>
    /\ aliases \in AliasTables
    /\ shell_vars = <<>>
    /\ history = <<>>
    /\ cwd = <<"/">>
    /\ ran = NoRun
    /\ scan = 1
    /\ FilesInit
    /\ cur = NoCmd
    /\ ConfigInit

\* execute_pipeline: for (int i = 0; i < pl->ncmds; i++) { .. }, the alias
\* expansion of every command of the pipeline
ExpandAliases ==
    /\ pc = "expand"
    /\ pl' = [pl EXCEPT !.cmds = [k \in 1..Len(pl.cmds) |->
                                    ExpandCommand(pl.cmds[k])]]
    /\ pc' = "expanded"
    /\ UNCHANGED <<term, Table, fg_pgid, tty, last_status>>
    /\ UNCHANGED <<i, pgid, p, w, status, j, Kernel, Build, Text, Files, cur, Config>>

NextExpand == ExpandAliases

SpecExpand == InitExpand /\ [][NextExpand]_vars

\* C34: the alias expansion of a command replaces only argv[0]: when
\* argv[0] names an alias, the new argv is the tokens of the alias value
\* followed by the original argv[1..], each one argument with its text
\* unchanged; when argv[0] names no alias, argv is unchanged.
C34_AliasReplacesOnlyFirstWord ==
    pc = "expanded" =>
        pl.cmds[1].argv =
            IF Lookup(aliases, toks[1]) # {}
            THEN tokenize(CHOOSE v \in Lookup(aliases, toks[1]) : TRUE)
                 \o Tail(toks)
            ELSE toks

\* the part of C34 the code keeps: when every word is non-empty and holds
\* no space, quote or backslash, argv[0] alone is replaced
C34_AliasReplacesFirstOfPlainWords ==
    (pc = "expanded" /\ \A k \in 1..Len(toks) : PlainWord(toks[k])) =>
        pl.cmds[1].argv =
            IF Lookup(aliases, toks[1]) # {}
            THEN tokenize(CHOOSE v \in Lookup(aliases, toks[1]) : TRUE)
                 \o Tail(toks)
            ELSE toks

(***************************************************************************)
(* The alias table, the variable table and the config file on their own:   *)
(* a shell starts and loads one of the files of ConfigFiles, runs alias,   *)
(* unalias, set and unset with the arguments of TableArgvs, exits and      *)
(* writes the file, and a second shell starts and loads what was written.  *)
(***************************************************************************)
\* the names n001, n002, ..
TableName(n) ==
    <<"n">> \o [k \in 1..3 |->
                 <<"0", "1", "2", "3", "4", "5", "6", "7", "8", "9">>
                     [((n \div <<100, 10, 1>>[k]) % 10) + 1]]

\* the file of the k aliases n001=v .. , and the one of the k variables
AliasFile(k) == [n \in 1..k |-> AliasPrefix \o TableName(n) \o <<"=", "v">>]
SetFile(k) == [n \in 1..k |-> SetPrefix \o TableName(n) \o <<"=", "v">>]

\* a file that was edited by hand: a name twice, a line without =, a line
\* that is neither an alias nor a set line
EditedFile ==
    <<AliasPrefix \o <<"a", "=", "v">>,
      AliasPrefix \o <<"a", "=", "w">>,
      SetPrefix \o <<"b", "=", "v">>,
      AliasPrefix \o <<"b">>,
      <<"#", "x">>>>

ConfigFiles ==
    {<<>>, EditedFile}
    \cup {AliasFile(k) : k \in (MAX_ALIASES - 1)..(MAX_ALIASES + 1)}
    \cup {SetFile(k) : k \in (MAX_VARS - 1)..(MAX_VARS + 1)}

TableNames == {<<"a">>, <<"b">>, <<"a", "=", "b">>}
TableValues == {<<"v">>, <<"v", "=", "w">>}

\* alias N V, unalias N, set N V, unset N
TableArgvs ==
    {<<(<<"a", "l", "i", "a", "s">>), n, v>> :
        n \in TableNames, v \in TableValues}
    \cup {<<(<<"u", "n", "a", "l", "i", "a", "s">>), n>> : n \in TableNames}
    \cup {<<(<<"s", "e", "t">>), n, v>> : n \in TableNames, v \in TableValues}
    \cup {<<(<<"u", "n", "s", "e", "t">>), n>> : n \in TableNames}

InitTables ==
    /\ pc = "load"
    /\ term = [cause |-> "none", saved |-> FALSE, code |-> 0]
    /\ jobs = <<>>
    /\ next_job_id = 1
    /\ fg_pgid = 0
    /\ tty = shell_pgid
    /\ procs = [q \in Pids |-> NoProc]
    /\ npids = 0
    /\ pl = NoLine
    /\ i = 1
    /\ pgid = 0
    /\ p = 0
    /\ w = 0
    /\ status = NoStatus
    /\ last_status = 0
    /\ j = 0
    /\ sigchld = FALSE
    /\ disp = [s \in Signals |-> "handler"]
    /\ sysv = FALSE
    /\ bgbase = 0
    /\ TextInit
    /\ FilesInit
    /\ cur = NoCmd
    /\ config \in ConfigFiles
    /\ at_exit = NoTables

\* main: load_persistent_data(); one line of the file per step, from empty
\* tables, then on to the loop
load_persistent_data ==
    /\ pc \in {"load", "reload"}
    /\ IF i > Len(config)
       THEN /\ pc' = IF pc = "load" THEN "tables" ELSE "reloaded"
            /\ i' = 0
            /\ UNCHANGED <<aliases, shell_vars>>
       ELSE /\ aliases' = LoadLine(Tables, config[i]).aliases
            /\ shell_vars' = LoadLine(Tables, config[i]).shell_vars
            /\ i' = i + 1
            /\ pc' = pc
    /\ UNCHANGED <<term, Table, fg_pgid, tty, last_status, pl, pgid, p, w>>
    /\ UNCHANGED <<status, j, Kernel, Build, line, toks, history, cwd, ran>>
    /\ UNCHANGED <<scan, Files, cur, Config>>

\* a line with one of the four built-ins: run_builtin in the shell
TableBuiltin ==
    /\ pc = "tables"
    /\ \E argv \in TableArgvs : \E b \in {run_builtin(argv)} :
          /\ aliases' = b.aliases
          /\ shell_vars' = b.shell_vars
          /\ last_status' = b.rc
          /\ ran' = [where |-> "shell", cmds |-> <<argv>>]
    /\ pc' = "tables"
    /\ UNCHANGED <<term, Table, fg_pgid, tty, Locals, Kernel, Build>>
    /\ UNCHANGED <<line, toks, history, cwd, scan, Files, cur, Config>>

\* the line "exit": builtin_exit writes the file
TableExit ==
    /\ pc = "tables"
    /\ builtin_exit("exit")
    /\ UNCHANGED <<tty, sysv, bgbase, Text, Files, cur>>

\* the next shell is started: empty tables, its handlers installed, and
\* load_persistent_data is called
TableRestart ==
    /\ pc = "exited"
    /\ pc' = "reload"
    /\ i' = 1
    /\ term' = [cause |-> "none", saved |-> FALSE, code |-> 0]
    /\ disp' = [s \in Signals |-> "handler"]
    /\ aliases' = <<>>
    /\ shell_vars' = <<>>
    /\ ran' = NoRun
    /\ UNCHANGED <<Table, fg_pgid, tty, last_status, pl, pgid, p, w, status>>
    /\ UNCHANGED <<j, Kernel, sysv, bgbase, line, toks, history, cwd, scan>>
    /\ UNCHANGED <<Files, cur, Config>>

NextTables ==
    load_persistent_data \/ TableBuiltin \/ TableExit \/ TableRestart

SpecTables == InitTables /\ [][NextTables]_vars

\* table t holds at most max entries and no name twice
TableBounded(t, max) ==
    /\ Len(t) <= max
    /\ Cardinality({t[k].name : k \in 1..Len(t)}) = Len(t)

\* table t with the value of the entry called name replaced
WithValue(t, name, value) ==
    [k \in 1..Len(t) |->
        IF t[k].name = name THEN [name |-> name, value |-> value] ELSE t[k]]

\* the step runs the built-in line argv
Runs(argv) == pc = "tables" /\ pc' = "tables" /\ ran'.cmds = <<argv>>

\* what C35 says of one step of the shell
TableStep ==
    /\ \A n \in TableNames, v \in TableValues :
          /\ (Runs(<<(<<"a", "l", "i", "a", "s">>), n, v>>)
              /\ Lookup(aliases, n) # {})
             => aliases' = WithValue(aliases, n, v)
          /\ (Runs(<<(<<"s", "e", "t">>), n, v>>)
              /\ Lookup(shell_vars, n) # {})
             => shell_vars' = WithValue(shell_vars, n, v)
    /\ \A n \in TableNames :
          /\ (Runs(<<(<<"u", "n", "a", "l", "i", "a", "s">>), n>>)
              /\ Lookup(aliases, n) = {})
             => last_status' = 1 /\ aliases' = aliases
          /\ (Runs(<<(<<"u", "n", "s", "e", "t">>), n>>)
              /\ Lookup(shell_vars, n) = {})
             => last_status' = 1 /\ shell_vars' = shell_vars

\* C35: after any sequence of alias, unalias, set and unset and of lines
\* loaded from the config file, each table holds at most 100 entries and
\* no name twice; adding a name that is there replaces its value and
\* leaves the number and the order of the entries alone; unalias and unset
\* of a name that is not there return 1 and leave the table alone.
C35_TablesBoundedAndUnique ==
    /\ [](/\ TableBounded(aliases, MAX_ALIASES)
          /\ TableBounded(shell_vars, MAX_VARS))
    /\ [][TableStep]_vars

\* C35: a full alias table in which alias a v=w has just replaced the value
\* of a
C35_Witness ==
    /\ pc = "tables"
    /\ Len(aliases) = MAX_ALIASES
    /\ ran.cmds = <<(<<(<<"a", "l", "i", "a", "s">>), (<<"a">>),
                       (<<"v", "=", "w">>)>>)>>
    /\ Lookup(aliases, <<"a">>) = {<<"v", "=", "w">>}
    /\ aliases[MAX_ALIASES].name = <<"a">>

\* C36: the tables a shell loads from the config file are the tables of
\* the shell that wrote it: the same names and values in the same order,
\* names and values that contain = included.
C36_SaveLoadRoundTrip ==
    pc = "reloaded" => Tables = at_exit

\* the part of C36 the code keeps: tables in which no name contains =
\* come back as they were written, whatever the values contain
C36_RoundTripOfNamesWithoutEq ==
    (/\ pc = "reloaded"
     /\ \A k \in 1..Len(at_exit.aliases) :
            strchr_eq(at_exit.aliases[k].name, 1) = 0
     /\ \A k \in 1..Len(at_exit.shell_vars) :
            strchr_eq(at_exit.shell_vars[k].name, 1) = 0)
    => Tables = at_exit

====
